---- MODULE Spec2Model ----
(***************************************************************************)
(* A model of the WebAssembly module sections of the gen_wasm backend      *)
(* (compiler/gen_wasm/src/wasm_module/sections.rs): the byte-level section *)
(* codec, the deduplicating type section, the element section's function   *)
(* table, and dead-code elimination over the preloaded code section.       *)
(*                                                                         *)
(* Bytes are the naturals 0..255, byte buffers are sequences of bytes and  *)
(* a cursor is a 0-based index into a buffer, as in the source.            *)
(***************************************************************************)
EXTENDS Integers, Sequences, FiniteSets, TLC

VARIABLES
    types,      \* TypeSection: [bytes, offsets]
    typeLog,    \* what the last TypeSection operation did, and the signatures stored
    element,    \* ElementSection: [segments]
    elemLog,    \* what the last ElementSection operation did, and the indices handed out
    unit,       \* the preloaded module and the sections the code section is trimmed in
    sect,       \* one section value of any kind, for the size()/serialize contract
    out,        \* what the last serialization of sect appended, and size() at that time
    parse,      \* the last call of a section parser: its input and what it returned
    patch,      \* a section being written: the buffer and its SectionHeaderIndices
    data        \* a parsed DataSection and the indices append_segment returned

vars == <<types, typeLog, element, elemLog, unit, sect, out, parse, patch, data>>

(***************************************************************************)
(* Bounds of the model.                                                    *)
(***************************************************************************)
MaxParams == 1      \* longest parameter list of the enumerated signatures
MaxSigs == 3        \* number of TypeSection::insert calls in one behaviour
MaxSegments == 2    \* element segments of a parsed element section
MaxFn == 2          \* function indices 0..MaxFn are asked table slots for
MaxTableCalls == 3  \* number of get_fn_table_index calls in one behaviour
MaxPreloads == 4    \* functions in the preloaded code section
MaxCallSites == 2   \* call and call_indirect instructions in the preloaded code
MaxItems == 2       \* entries appended to a section before it is serialized
MaxCursor == 3         \* the cursors a parser is started at: 0..MaxCursor

(***************************************************************************)
(* Sequence helpers. Rust slices bytes[a..b] are 0-based and half-open.    *)
(***************************************************************************)
Slice(s, a, b) == IF b <= a THEN <<>> ELSE SubSeq(s, a + 1, b)

At(s, i) == s[i + 1]

Last(s) == s[Len(s)]

RECURSIVE SeqsUpTo(_, _)
SeqsUpTo(S, n) ==
    IF n = 0 THEN {<<>>}
    ELSE LET shorter == SeqsUpTo(S, n - 1)
         IN  shorter \cup {Append(s, x) : s \in {t \in shorter : Len(t) = n - 1}, x \in S}

RECURSIVE Flatten(_)
Flatten(ss) == IF ss = <<>> THEN <<>> ELSE Head(ss) \o Flatten(Tail(ss))

Range(s) == {s[i] : i \in 1..Len(s)}

Max(a, b) == IF a >= b THEN a ELSE b

(***************************************************************************)
(* The primitive codec (serialize.rs, parse.rs): LEB128 integers.          *)
(***************************************************************************)
MAX_SIZE_ENCODED_U32 == 5

(* A 32-bit value is held as the integer its bit pattern denotes as an i32  *)
(* (TLC's integers are themselves 32 bits wide): a u32 value v >= 2^31 is   *)
(* held as v - 2^32. `as i32` and `as u32` then leave the integer as it is. *)
MaxI32 == 2147483647

MinI32 == -MaxI32 - 1

\* a + b in wrapping i32 arithmetic, without leaving the i32 range on the way
I32Add(a, b) ==
    IF a >= 0 /\ b >= 0
    THEN IF b > MaxI32 - a THEN ((a + MinI32) + b) + MinI32 ELSE a + b
    ELSE IF a < 0 /\ b < 0
    THEN IF b < MinI32 - a THEN ((a - MinI32) + b) - MinI32 ELSE a + b
    ELSE a + b

\* whether a + b overflows an i32 (a panic in a build with overflow checks)
I32AddOverflows(a, b) ==
    \/ a >= 0 /\ b >= 0 /\ b > MaxI32 - a
    \/ a < 0 /\ b < 0 /\ b < MinI32 - a

\* logical shift right by 7 of a u32 bit pattern
U32Shr7(n) ==
    IF n >= 0 THEN n \div 128 ELSE ((n - (n % 128)) \div 128) + 33554432

\* SerialBuffer::encode_u32: unsigned LEB128 of minimal width
RECURSIVE encode_u32(_)
encode_u32(n) ==
    IF n >= 0 /\ n < 128 THEN <<n>> ELSE <<128 + (n % 128)>> \o encode_u32(U32Shr7(n))

\* SerialBuffer::encode_padded_u32: unsigned LEB128 always five bytes wide
encode_padded_u32(n) ==
    LET a == U32Shr7(n)
        b == U32Shr7(a)
        c == U32Shr7(b)
        d == U32Shr7(c)
    IN  <<128 + (n % 128), 128 + (a % 128), 128 + (b % 128), 128 + (c % 128), d>>

\* SerialBuffer::encode_i32: signed LEB128 of minimal width
RECURSIVE encode_i32(_)
encode_i32(x) ==
    LET byte == x % 128
        rest == (x - byte) \div 128
    IN  IF (rest = 0 /\ byte < 64) \/ (rest = -1 /\ byte >= 64)
        THEN <<byte>>
        ELSE <<128 + byte>> \o encode_i32(rest)

\* (byte & 0x7f) << shift added to acc in u32 arithmetic; shift is 128^i.
\* Bits shifted past bit 31 are lost, bit 31 makes the pattern negative.
U32AddShifted(acc, byte, i) ==
    LET low == byte % 128
    IN  CASE i = 0 -> acc + low
          [] i = 1 -> acc + low * 128
          [] i = 2 -> acc + low * 16384
          [] i = 3 -> acc + low * 2097152
          [] OTHER -> IF low % 16 < 8
                      THEN acc + (low % 16) * 268435456
                      ELSE acc + ((low % 16) - 16) * 268435456

\* u32::parse: decode an unsigned LEB128 of at most five bytes at the cursor.
\* [ok, value, cursor]; not ok when no terminating byte is found.
RECURSIVE decode_u32_from(_, _, _, _)
decode_u32_from(bytes, cursor, i, acc) ==
    IF i >= MAX_SIZE_ENCODED_U32 \/ cursor + i >= Len(bytes)
    THEN [ok |-> FALSE, value |-> 0, cursor |-> cursor]
    ELSE LET byte == At(bytes, cursor + i)
             value == U32AddShifted(acc, byte, i)
         IN  IF byte < 128
             THEN [ok |-> TRUE, value |-> value, cursor |-> cursor + i + 1]
             ELSE decode_u32_from(bytes, cursor, i + 1, value)

parse_u32(bytes, cursor) == decode_u32_from(bytes, cursor, 0, 0)

\* <&str>::serialize, Vec<u8>::serialize: length prefix, then the bytes
serialize_vec_u8(bytes) == encode_u32(Len(bytes)) \o bytes

(***************************************************************************)
(* Section header codec.                                                   *)
(***************************************************************************)
SectionIdCustom == 0
SectionIdType == 1
SectionIdImport == 2
SectionIdFunction == 3
SectionIdTable == 4
SectionIdMemory == 5
SectionIdGlobal == 6
SectionIdExport == 7
SectionIdElement == 9
SectionIdCode == 10
SectionIdData == 11

\* the ids of the sections that are read through parse_section
SectionIds == {SectionIdType, SectionIdImport, SectionIdFunction, SectionIdTable,
               SectionIdMemory, SectionIdGlobal, SectionIdExport, SectionIdElement,
               SectionIdCode, SectionIdData}

MAX_SIZE_SECTION_HEADER == 1 + 2 * MAX_SIZE_ENCODED_U32

\* write_section_header: the id byte and a reserved five-byte length
write_section_header(buffer, id) ==
    [ buffer |-> buffer \o <<id>> \o <<255, 255, 255, 255, 255>>,
      size_index |-> Len(buffer) + 1,
      body_index |-> Len(buffer) + 1 + MAX_SIZE_ENCODED_U32 ]

\* an overwrite that writes the value at its minimal width
overwrite_minimal_u32(buffer, index, value) ==
    Slice(buffer, 0, index) \o encode_u32(value)
        \o Slice(buffer, index + MAX_SIZE_ENCODED_U32, Len(buffer))

\* SerialBuffer::overwrite_padded_u32
overwrite_padded_u32(buffer, index, value) ==
    Slice(buffer, 0, index) \o encode_padded_u32(value)
        \o Slice(buffer, index + MAX_SIZE_ENCODED_U32, Len(buffer))

\* update_section_size: patch the reserved length with (buffer size - body start)
update_section_size(buffer, header_indices) ==
    overwrite_padded_u32(buffer, header_indices.size_index,
                         Len(buffer) - header_indices.body_index)

\* serialize_bytes_section: nothing at all for an empty section
serialize_bytes_section(id, count, bytes, buffer) ==
    IF bytes = <<>> THEN buffer
    ELSE LET h == write_section_header(buffer, id)
         IN  update_section_size(h.buffer \o encode_u32(count) \o bytes, h)

\* a parse_section that takes another section's id for an error
parse_section_rejects_other_id(expected_id, module_bytes, cursor) ==
    LET failed(message) == [status |-> "Err", count |-> 0, start |-> cursor, end |-> cursor,
                            cursor |-> cursor, message |-> message]
    IN  IF cursor >= Len(module_bytes) THEN failed("End of file")
        ELSE IF At(module_bytes, cursor) # expected_id THEN failed("Unexpected section")
        ELSE LET size == parse_u32(module_bytes, cursor + 1)
                 count == parse_u32(module_bytes, size.cursor)
             IN  IF ~size.ok \/ ~count.ok THEN failed("Failed to decode u32")
                 ELSE [status |-> "Ok", count |-> count.value, start |-> count.cursor,
                       end |-> IF size.value < 0 THEN MaxI32 ELSE size.cursor + size.value,
                       cursor |-> count.cursor, message |-> ""]

\* a parse_section that measures the section from the end of the count field
parse_section_sized_from_body(expected_id, module_bytes, cursor) ==
    LET failed(message) == [status |-> "Err", count |-> 0, start |-> cursor, end |-> cursor,
                            cursor |-> cursor, message |-> message]
    IN  IF cursor >= Len(module_bytes) THEN failed("End of file")
        ELSE IF At(module_bytes, cursor) # expected_id
        THEN [status |-> "Ok", count |-> 0, start |-> cursor, end |-> cursor,
              cursor |-> cursor, message |-> ""]
        ELSE LET size == parse_u32(module_bytes, cursor + 1)
                 count == parse_u32(module_bytes, size.cursor)
             IN  IF ~size.ok \/ ~count.ok THEN failed("Failed to decode u32")
                 ELSE [status |-> "Ok", count |-> count.value, start |-> count.cursor,
                       end |-> IF size.value < 0 THEN MaxI32 ELSE count.cursor + size.value,
                       cursor |-> count.cursor, message |-> ""]

\* parse_section: [status ("Ok" | "Err"), count, start, end, cursor, message]
parse_section(expected_id, module_bytes, cursor) ==
    IF cursor >= Len(module_bytes)
    THEN [status |-> "Err", count |-> 0, start |-> cursor, end |-> cursor,
          cursor |-> cursor, message |-> "End of file"]
    ELSE IF At(module_bytes, cursor) # expected_id
    THEN [status |-> "Ok", count |-> 0, start |-> cursor, end |-> cursor,
          cursor |-> cursor, message |-> ""]
    ELSE LET size == parse_u32(module_bytes, cursor + 1)
             count == parse_u32(module_bytes, size.cursor)
         IN  IF ~size.ok \/ ~count.ok
             THEN [status |-> "Err", count |-> 0, start |-> cursor, end |-> cursor,
                   cursor |-> cursor, message |-> "Failed to decode u32"]
             ELSE [status |-> "Ok", count |-> count.value, start |-> count.cursor,
                   end |-> IF size.value < 0 THEN MaxI32 ELSE size.cursor + size.value,
                   cursor |-> count.cursor,
                   message |-> ""]

(***************************************************************************)
(* Type section: the deduplicated list of function signatures.             *)
(* A signature is [param_types: sequence of value types, ret_type], where  *)
(* ret_type is a value type or "None".                                     *)
(***************************************************************************)
ValueTypeByte(t) ==
    CASE t = "I32" -> 127
      [] t = "I64" -> 126
      [] t = "F32" -> 125
      [] t = "F64" -> 124

SEPARATOR == 96

\* Signature::serialize: separator, the parameter vector, the optional return type
Signature_serialize(signature) ==
    <<SEPARATOR>>
        \o encode_u32(Len(signature.param_types))
        \o [i \in 1..Len(signature.param_types) |-> ValueTypeByte(signature.param_types[i])]
        \o (IF signature.ret_type = "None" THEN <<0>>
            ELSE <<1, ValueTypeByte(signature.ret_type)>>)

NewTypeSection == [bytes |-> <<>>, offsets |-> <<>>]

\* the scan of TypeSection::insert over the stored offsets: the index of the
\* first stored signature whose bytes equal sig_bytes, or -1
RECURSIVE insert_scan(_, _, _)
insert_scan(section, sig_bytes, i) ==
    IF i >= Len(section.offsets) THEN -1
    ELSE LET offset == At(section.offsets, i)
             end == offset + Len(sig_bytes)
         IN  IF end > Len(section.bytes) THEN -1
             ELSE IF Slice(section.bytes, offset, end) = sig_bytes THEN i
             ELSE insert_scan(section, sig_bytes, i + 1)

\* a TypeSection::insert that never looks for a stored signature
TypeSection_insert_always_appends(section, signature) ==
    [ section |-> [ bytes |-> section.bytes \o Signature_serialize(signature),
                    offsets |-> Append(section.offsets, Len(section.bytes)) ],
      index |-> Len(section.offsets) ]

\* a TypeSection::insert that compares the parameter lists only
TypeSection_insert_ignores_return(section, signature) ==
    LET sig_bytes == Signature_serialize(signature)
        head == Slice(sig_bytes, 0, 2 + Len(signature.param_types))
        found == insert_scan(section, head, 0)
    IN  IF found >= 0 THEN [section |-> section, index |-> found]
        ELSE TypeSection_insert_always_appends(section, signature)

\* TypeSection::insert: [section, index]
TypeSection_insert(section, signature) ==
    LET sig_bytes == Signature_serialize(signature)
        found == insert_scan(section, sig_bytes, 0)
    IN  IF found >= 0
        THEN [section |-> section, index |-> found]
        ELSE [ section |-> [ bytes |-> section.bytes \o sig_bytes,
                             offsets |-> Append(section.offsets, Len(section.bytes)) ],
               index |-> Len(section.offsets) ]

TypeSection_size(section) == MAX_SIZE_SECTION_HEADER + Len(section.bytes)

TypeSection_serialize(section, buffer) ==
    serialize_bytes_section(SectionIdType, Len(section.offsets), section.bytes, buffer)

\* the offsets loop of TypeSection::parse; skip_ret says whether the return
\* values are stepped over. [status ("Ok" | "Err" | "Panic"), offsets]
RECURSIVE parse_type_offsets(_, _, _, _)
parse_type_offsets(bytes, i, offsets, skip_ret) ==
    IF i >= Len(bytes) THEN [status |-> "Ok", offsets |-> offsets]
    ELSE IF At(bytes, i) # SEPARATOR THEN [status |-> "Err", offsets |-> <<>>]
    ELSE LET n_params == parse_u32(bytes, i + 1)
             j == n_params.cursor + n_params.value
         IN  IF ~n_params.ok \/ n_params.value < 0 \/ j >= Len(bytes)
             THEN [status |-> "Panic", offsets |-> <<>>]
             ELSE parse_type_offsets(bytes,
                                     j + 1 + (IF skip_ret THEN At(bytes, j) ELSE 0),
                                     Append(offsets, i), skip_ret)

ParseFailure(status, cursor, message) ==
    [status |-> status, section |-> NewTypeSection, cursor |-> cursor, message |-> message]

TypeSection_parse_with(module_bytes, cursor, skip_ret) ==
    LET ps == parse_section(SectionIdType, module_bytes, cursor)
    IN  IF ps.status # "Ok" THEN ParseFailure("Err", cursor, ps.message)
        ELSE IF ps.start > ps.end \/ ps.end > Len(module_bytes)
        THEN ParseFailure("Panic", ps.cursor, "slice index out of range")
        ELSE LET bytes == Slice(module_bytes, ps.start, ps.end)
                 walk == parse_type_offsets(bytes, 0, <<>>, skip_ret)
             IN  CASE walk.status = "Ok" ->
                        [ status |-> "Ok",
                          section |-> [bytes |-> bytes, offsets |-> walk.offsets],
                          cursor |-> ps.end, message |-> "" ]
                   [] walk.status = "Err" ->
                        ParseFailure("Err", ps.end,
                                     "Invalid signature separator in TypeSection")
                   [] OTHER -> ParseFailure("Panic", ps.end, "index out of bounds")

\* a TypeSection::parse that does not step over the return type
TypeSection_parse_forgets_return(module_bytes, cursor) ==
    TypeSection_parse_with(module_bytes, cursor, FALSE)

\* TypeSection::parse: [status, section, cursor, message]
TypeSection_parse(module_bytes, cursor) ==
    TypeSection_parse_with(module_bytes, cursor, TRUE)

(***************************************************************************)
(* The type section as the code generator uses it: built fresh, filled by  *)
(* insert, serialized, and read back by parse as a preloaded section.      *)
(***************************************************************************)
ExampleSignatures ==
    { [param_types |-> <<"I32", "I64", "F32", "F64">>, ret_type |-> "None"],
      [param_types |-> <<"I32", "I32", "I32">>, ret_type |-> "I32"],
      [param_types |-> <<"I32", "I64">>, ret_type |-> "None"],
      [param_types |-> <<"I64", "I32">>, ret_type |-> "None"] }

Signatures ==
    [param_types : SeqsUpTo({"I32", "I64"}, MaxParams), ret_type : {"None", "I32"}]
        \cup ExampleSignatures

NoSignature == [param_types |-> <<>>, ret_type |-> "None"]

NewTypeLog ==
    [ op |-> "new", signature |-> NoSignature, index |-> 0,
      before |-> NewTypeSection, given |-> {}, calls |-> 0,
      reloaded |-> FALSE, status |-> "Ok", known |-> FALSE ]

\* The index first returned for a signature, from the log of earlier inserts
Given(log, signature) == {g \in log.given : g.signature = signature}

\* one call of TypeSection::insert
TypeInsert(signature) ==
    /\ typeLog.calls < MaxSigs
    /\ LET r == TypeSection_insert(types, signature)
       IN  /\ types' = r.section
           /\ typeLog' = [ typeLog EXCEPT
                  !.op = "insert", !.signature = signature, !.index = r.index,
                  !.before = types, !.calls = @ + 1, !.status = "Ok",
                  !.known = (Given(typeLog, signature) # {}),
                  !.given = IF Given(typeLog, signature) = {}
                            THEN @ \cup {[signature |-> signature, index |-> r.index]}
                            ELSE @ ]

\* serialize the section and parse the bytes from cursor 0; the parsed section
\* replaces the one built
TypeReload ==
    /\ typeLog.op # "parse"
    /\ LET r == TypeSection_parse(TypeSection_serialize(types, <<>>), 0)
       IN  /\ types' = IF r.status = "Ok" THEN r.section ELSE types
           /\ typeLog' = [ typeLog EXCEPT
                  !.op = "parse", !.before = types, !.status = r.status,
                  !.reloaded = (r.status = "Ok") ]

otherThanTypes == <<element, elemLog, unit, sect, out, parse, patch, data>>

TypeNext ==
    \/ \E signature \in Signatures : TypeInsert(signature) /\ UNCHANGED otherThanTypes
    \/ TypeReload /\ UNCHANGED otherThanTypes

(***************************************************************************)
(* Constant expressions. Only the I32 variant is modelled: a ConstExpr is  *)
(* the i32 it holds.                                                       *)
(***************************************************************************)
OpCodeI32CONST == 65

OpCodeEND == 11

\* ConstExpr::serialize for ConstExpr::I32(x)
ConstExpr_serialize(x) == <<OpCodeI32CONST>> \o encode_i32(x) \o <<OpCodeEND>>

\* Vec<u32>::serialize: the length, then each element, as unsigned LEB128
RECURSIVE encode_u32_each(_)
encode_u32_each(xs) ==
    IF xs = <<>> THEN <<>> ELSE encode_u32(Head(xs)) \o encode_u32_each(Tail(xs))

serialize_vec_u32(xs) == encode_u32(Len(xs)) \o encode_u32_each(xs)

\* count consecutive u32::parse calls: [ok, values, cursor]
RECURSIVE parse_u32_seq(_, _, _, _)
parse_u32_seq(bytes, cursor, count, acc) ==
    IF count = 0 THEN [ok |-> TRUE, values |-> acc, cursor |-> cursor]
    ELSE LET x == parse_u32(bytes, cursor)
         IN  IF ~x.ok THEN [ok |-> FALSE, values |-> acc, cursor |-> cursor]
             ELSE parse_u32_seq(bytes, x.cursor, count - 1, Append(acc, x.value))

(***************************************************************************)
(* Element section: the function table behind call_indirect.               *)
(* An ElementSegment is [offset, fn_indices], the section is [segments].   *)
(***************************************************************************)
ActiveImplicitTableIndex == 0

ElementSegment_size(seg) ==
    1 + 1 + MAX_SIZE_ENCODED_U32 + MAX_SIZE_ENCODED_U32
        + MAX_SIZE_ENCODED_U32 * Len(seg.fn_indices)

ElementSegment_serialize(seg) ==
    <<ActiveImplicitTableIndex>> \o ConstExpr_serialize(seg.offset)
        \o serialize_vec_u32(seg.fn_indices)

EmptySegment == [offset |-> 1, fn_indices |-> <<>>]

\* ElementSegment::parse: [status ("Ok" | "Err" | "Panic"), segment, cursor].
\* The format id, the opcode and the end marker are only debug-asserted.
ElementSegment_parse(bytes, cursor) ==
    IF cursor + 1 >= Len(bytes)
    THEN [status |-> "Panic", segment |-> EmptySegment, cursor |-> cursor]
    ELSE LET offset == parse_u32(bytes, cursor + 2)
         IN  IF ~offset.ok
             THEN [status |-> "Err", segment |-> EmptySegment, cursor |-> cursor]
             ELSE IF offset.cursor >= Len(bytes)
             THEN [status |-> "Panic", segment |-> EmptySegment, cursor |-> cursor]
             ELSE LET num_elems == parse_u32(bytes, offset.cursor + 1)
                      fns == parse_u32_seq(bytes, num_elems.cursor,
                                           num_elems.value, <<>>)
                  IN  IF ~num_elems.ok \/ num_elems.value < 0 \/ ~fns.ok
                      THEN [status |-> "Err", segment |-> EmptySegment,
                            cursor |-> cursor]
                      ELSE [ status |-> "Ok",
                             segment |-> [offset |-> offset.value,
                                          fn_indices |-> fns.values],
                             cursor |-> fns.cursor ]

RECURSIVE parse_segments(_, _, _, _)
parse_segments(bytes, cursor, count, acc) ==
    IF count = 0 THEN [status |-> "Ok", segments |-> acc, cursor |-> cursor]
    ELSE LET seg == ElementSegment_parse(bytes, cursor)
         IN  IF seg.status # "Ok"
             THEN [status |-> seg.status, segments |-> acc, cursor |-> cursor]
             ELSE parse_segments(bytes, seg.cursor, count - 1, Append(acc, seg.segment))

\* ElementSection::parse: [status, section, cursor]
ElementSection_parse(module_bytes, cursor) ==
    LET ps == parse_section(SectionIdElement, module_bytes, cursor)
    IN  IF ps.status # "Ok"
        THEN [status |-> "Err", section |-> [segments |-> <<>>], cursor |-> cursor]
        ELSE IF ps.count = 0
        THEN [ status |-> "Ok", section |-> [segments |-> <<EmptySegment>>],
               cursor |-> ps.end ]
        ELSE LET segs == parse_segments(module_bytes, ps.cursor, ps.count, <<>>)
             IN  IF segs.status # "Ok"
                 THEN [status |-> segs.status, section |-> [segments |-> <<>>],
                       cursor |-> cursor]
                 ELSE [ status |-> "Ok", section |-> [segments |-> segs.segments],
                        cursor |-> ps.end ]

RECURSIVE serialize_segments(_)
serialize_segments(segments) ==
    IF segments = <<>> THEN <<>>
    ELSE ElementSegment_serialize(Head(segments)) \o serialize_segments(Tail(segments))

\* ElementSection::serialize: always a header, then the vector of segments
ElementSection_serialize(section, buffer) ==
    LET h == write_section_header(buffer, SectionIdElement)
    IN  update_section_size(
            h.buffer \o encode_u32(Len(section.segments))
                \o serialize_segments(section.segments), h)

RECURSIVE sum_segment_sizes(_)
sum_segment_sizes(segments) ==
    IF segments = <<>> THEN 0
    ELSE ElementSegment_size(Head(segments)) + sum_segment_sizes(Tail(segments))

ElementSection_size(section) == sum_segment_sizes(section.segments)

\* Iterator::position: the 0-based index of the first x in xs, or -1
RECURSIVE position(_, _, _)
position(xs, x, i) ==
    IF i >= Len(xs) THEN -1
    ELSE IF At(xs, i) = x THEN i
    ELSE position(xs, x, i + 1)

\* the table index of slot pos of a segment: offset + pos as i32
slot_index(seg, pos) ==
    [index |-> I32Add(seg.offset, pos), overflow |-> I32AddOverflows(seg.offset, pos)]

\* a get_fn_table_index that hands a new function the slot of the last entry
ElementSection_get_fn_table_index_reuses_last_slot(section, fn_index) ==
    LET n == Len(section.segments)
        segment == section.segments[n]
        pos == position(segment.fn_indices, fn_index, 0)
        at == slot_index(segment, Max(Len(segment.fn_indices) - 1, 0))
    IN  IF pos >= 0
        THEN [ status |-> "Ok", section |-> section,
               index |-> slot_index(segment, pos).index,
               overflow |-> slot_index(segment, pos).overflow ]
        ELSE [ status |-> "Ok",
               section |-> [segments |-> [section.segments EXCEPT
                               ![n].fn_indices = Append(@, fn_index)]],
               index |-> at.index, overflow |-> at.overflow ]

\* a get_fn_table_index that appends without looking the function up
ElementSection_get_fn_table_index_always_appends(section, fn_index) ==
    LET n == Len(section.segments)
        segment == section.segments[n]
        at == slot_index(segment, Len(segment.fn_indices))
    IN  [ status |-> "Ok",
          section |-> [segments |-> [section.segments EXCEPT
                          ![n].fn_indices = Append(@, fn_index)]],
          index |-> at.index, overflow |-> at.overflow ]

\* ElementSection::get_fn_table_index: [status, section, index, overflow];
\* overflow marks an i32 sum that wrapped (a panic where overflow is checked)
ElementSection_get_fn_table_index(section, fn_index) ==
    IF section.segments = <<>>
    THEN [status |-> "Panic", section |-> section, index |-> 0, overflow |-> FALSE]
    ELSE LET n == Len(section.segments)
             segment == section.segments[n]
             pos == position(segment.fn_indices, fn_index, 0)
         IN  IF pos >= 0
             THEN [ status |-> "Ok", section |-> section,
                    index |-> slot_index(segment, pos).index,
                    overflow |-> slot_index(segment, pos).overflow ]
             ELSE LET at == slot_index(segment, Len(segment.fn_indices))
                  IN  [ status |-> "Ok",
                        section |-> [segments |-> [section.segments EXCEPT
                                        ![n].fn_indices = Append(@, fn_index)]],
                        index |-> at.index, overflow |-> at.overflow ]

RECURSIVE max_table_index_from(_, _, _)
max_table_index_from(segments, i, result) ==
    IF i > Len(segments) THEN result
    ELSE LET max_index == slot_index(segments[i], Len(segments[i].fn_indices)).index
         IN  max_table_index_from(segments, i + 1,
                                  IF max_index > result THEN max_index ELSE result)

\* a max_table_index that looks at the first segment only
ElementSection_max_table_index_first_only(section) ==
    max_table_index_from(SubSeq(section.segments, 1, 1), 1, 0)

\* a max_table_index that returns the last slot in use, not the slot count
ElementSection_max_table_index_last_used(section) ==
    Max(0, max_table_index_from(section.segments, 1, 0) - 1)

\* ElementSection::max_table_index
ElementSection_max_table_index(section) ==
    max_table_index_from(section.segments, 1, 0)

\* ElementSection::indirect_callees: every function index of every segment
RECURSIVE ElementSection_indirect_callees_from(_)
ElementSection_indirect_callees_from(segments) ==
    IF segments = <<>> THEN <<>>
    ELSE Head(segments).fn_indices \o ElementSection_indirect_callees_from(Tail(segments))

ElementSection_indirect_callees(section) ==
    ElementSection_indirect_callees_from(section.segments)

(***************************************************************************)
(* The element section as the code generator uses it: parsed from the      *)
(* preloaded module (or synthesized when the module has none), then asked  *)
(* for table slots.                                                        *)
(***************************************************************************)
SegmentOffsets == {0, 1, MinI32, MaxI32}

PreloadedSegments ==
    [offset : SegmentOffsets, fn_indices : SeqsUpTo(0..MaxFn, 1)]

\* the preloaded modules' element sections, and a module without one
\* (the next section, Code, follows at once)
ElementInputs ==
    { ElementSection_serialize([segments |-> segs], <<>>) :
        segs \in SeqsUpTo(PreloadedSegments, MaxSegments) \ {<<>>} }
    \cup {<<SectionIdCode>>}

NewElemLog ==
    [ op |-> "parse", fn_index |-> 0, index |-> 0, overflow |-> FALSE,
      before |-> [segments |-> <<>>], max_before |-> 0, given |-> {}, calls |-> 0,
      known |-> FALSE ]

ParsedElementSections ==
    {ElementSection_parse(bytes, 0).section : bytes \in ElementInputs}

\* one call of ElementSection::get_fn_table_index
ElemGetFnTableIndex(fn_index) ==
    /\ elemLog.calls < MaxTableCalls
    /\ LET r == ElementSection_get_fn_table_index(element, fn_index)
       IN  /\ element' = r.section
           /\ elemLog' = [ elemLog EXCEPT
                  !.op = "get", !.fn_index = fn_index, !.index = r.index,
                  !.overflow = r.overflow, !.before = element,
                  !.max_before = ElementSection_max_table_index(element),
                  !.calls = @ + 1,
                  !.known = (\E g \in elemLog.given : g.fn_index = fn_index),
                  !.given = IF \E g \in @ : g.fn_index = fn_index THEN @
                            ELSE @ \cup {[fn_index |-> fn_index, index |-> r.index]} ]

\* one call of ElementSection::max_table_index
ElemMaxTableIndex ==
    /\ elemLog.op # "max"
    /\ element' = element
    /\ elemLog' = [ elemLog EXCEPT
           !.op = "max", !.index = ElementSection_max_table_index(element),
           !.before = element ]

otherThanElement == <<types, typeLog, unit, sect, out, parse, patch, data>>

ElemNext ==
    \/ \E fn_index \in 0..MaxFn : ElemGetFnTableIndex(fn_index) /\ UNCHANGED otherThanElement
    \/ ElemMaxTableIndex /\ UNCHANGED otherThanElement

(***************************************************************************)
(* Code section. A function body is [fn, code]: fn names the function the  *)
(* body was compiled from (it is not part of the bytes), code is its       *)
(* instructions, each [op, arg] with op "call" (arg a function index) or   *)
(* "call_indirect" (arg a signature index). The preloaded blob is the      *)
(* sequence of the bodies it holds.                                        *)
(***************************************************************************)
OpCodeCALL == 16

OpCodeCALLINDIRECT == 17

InstructionBytes(instr) ==
    IF instr.op = "call" THEN <<OpCodeCALL>> \o encode_u32(instr.arg)
    ELSE <<OpCodeCALLINDIRECT>> \o encode_u32(instr.arg) \o <<0>>

RECURSIVE InstructionsBytes(_)
InstructionsBytes(code) ==
    IF code = <<>> THEN <<>>
    ELSE InstructionBytes(Head(code)) \o InstructionsBytes(Tail(code))

\* the bytes of one function body: its size, no locals, the code, end
BodyBytes(body) ==
    LET inner == <<0>> \o InstructionsBytes(body.code) \o <<OpCodeEND>>
    IN  encode_u32(Len(inner)) \o inner

RECURSIVE BlobBytes(_)
BlobBytes(bodies) ==
    IF bodies = <<>> THEN <<>> ELSE BodyBytes(Head(bodies)) \o BlobBytes(Tail(bodies))

(***************************************************************************)
(* Dead-code elimination over the preloaded functions (dead_code.rs).      *)
(* Function indices are whole-module indices: the imports come first, the  *)
(* preloaded function at position p (from 1) has index import count + p-1. *)
(***************************************************************************)
\* the callees of one instruction: the target of a call, and for a
\* call_indirect every table-resident function of the declared signature
Callees(instr, signatures, indirect_callees) ==
    IF instr.op = "call" THEN {instr.arg}
    ELSE {f \in Range(indirect_callees) :
            f < Len(signatures) /\ At(signatures, f) = instr.arg}

\* parse_preloads_call_graph: the call-graph metadata of the preloaded blob
parse_preloads_call_graph(preloaded_bytes, import_signatures, function_signatures, indirect_callees) ==
    LET signatures == import_signatures \o function_signatures
    IN  [ num_preloads |-> Len(import_signatures) + Len(preloaded_bytes),
          import_fn_count |-> Len(import_signatures),
          calls |-> [p \in 1..Len(preloaded_bytes) |->
                        UNION { Callees(preloaded_bytes[p].code[k], signatures,
                                        indirect_callees) :
                                k \in 1..Len(preloaded_bytes[p].code) }],
          indirect_callees |-> Range(indirect_callees) ]

\* the preloaded functions among a set of function indices
Preloaded(call_graph, fns) ==
    {f \in fns : f >= call_graph.import_fn_count /\ f < call_graph.num_preloads}

RECURSIVE trace_from(_, _, _)
trace_from(call_graph, live, current_trace) ==
    IF current_trace = {} THEN live
    ELSE LET called == UNION {call_graph.calls[f - call_graph.import_fn_count + 1] :
                                f \in current_trace}
             next_trace == Preloaded(call_graph, called) \ (live \cup current_trace)
         IN  trace_from(call_graph, live \cup current_trace, next_trace)

\* trace_call_graph: the live preloaded functions, traced from the exported
\* functions, the functions called by generated code, and the table's functions
trace_call_graph(call_graph, exported_fns, called_preload_fns) ==
    trace_from(call_graph, {},
               Preloaded(call_graph,
                         Range(exported_fns) \cup Range(called_preload_fns)
                             \cup call_graph.indirect_callees))

\* the functions of a set in the order a ranking puts them
RECURSIVE InOrder(_, _)
InOrder(fns, rank) ==
    IF fns = {} THEN <<>>
    ELSE LET first == CHOOSE f \in fns : \A g \in fns : rank[f] <= rank[g]
         IN  <<first>> \o InOrder(fns \ {first}, rank)

\* a traversal that gives up at the first function it meets again
RECURSIVE trace_in_order_stops_at_visited(_, _, _, _, _)
trace_in_order_stops_at_visited(call_graph, worklist, live, rank, depth_first) ==
    IF worklist = <<>> THEN live
    ELSE IF Head(worklist) \in live THEN live
    ELSE LET callees ==
                 InOrder(Preloaded(call_graph,
                             call_graph.calls[Head(worklist) - call_graph.import_fn_count + 1]),
                         rank)
         IN  trace_in_order_stops_at_visited(call_graph,
                 IF depth_first THEN callees \o Tail(worklist) ELSE Tail(worklist) \o callees,
                 live \cup {Head(worklist)}, rank, depth_first)

\* the trace of the call graph as a worklist traversal: the functions are
\* visited one at a time, the callees of each in the order of rank, depth
\* first or breadth first
RECURSIVE trace_in_order(_, _, _, _, _)
trace_in_order(call_graph, worklist, live, rank, depth_first) ==
    IF worklist = <<>> THEN live
    ELSE IF Head(worklist) \in live
    THEN trace_in_order(call_graph, Tail(worklist), live, rank, depth_first)
    ELSE LET callees ==
                 InOrder(Preloaded(call_graph,
                             call_graph.calls[Head(worklist) - call_graph.import_fn_count + 1]),
                         rank)
         IN  trace_in_order(call_graph,
                 IF depth_first THEN callees \o Tail(worklist) ELSE Tail(worklist) \o callees,
                 live \cup {Head(worklist)}, rank, depth_first)

\* the index a function has once the dead preloaded functions are gone
remap_fn_index(call_graph, live, index) ==
    IF index < call_graph.import_fn_count THEN index
    ELSE IF index < call_graph.num_preloads
    THEN call_graph.import_fn_count + Cardinality({l \in live : l < index})
    ELSE index - (call_graph.num_preloads - call_graph.import_fn_count
                    - Cardinality(live))

remap_body(call_graph, live, body) ==
    [ body EXCEPT !.code =
        [k \in 1..Len(body.code) |->
            IF body.code[k].op = "call"
            THEN [body.code[k] EXCEPT !.arg = remap_fn_index(call_graph, live, @)]
            ELSE body.code[k]] ]

RECURSIVE copy_live_from(_, _, _, _)
copy_live_from(call_graph, external_code, live, p) ==
    IF p > Len(external_code) THEN <<>>
    ELSE (IF (call_graph.import_fn_count + p - 1) \in live
          THEN <<remap_body(call_graph, live, external_code[p])>>
          ELSE <<>>)
         \o copy_live_from(call_graph, external_code, live, p + 1)

\* copy_preloads_shrinking_dead_fns: the buffer with the live bodies appended in
\* their original order, their call sites renumbered
copy_preloads_shrinking_dead_fns(buffer, call_graph, external_code, import_fn_count, live_preload_indices) ==
    buffer \o copy_live_from(call_graph, external_code, live_preload_indices, 1)

(***************************************************************************)
(* CodeSection: [preloaded_count, preloaded_reloc_offset, preloaded_bytes, *)
(* code_builders, dead_code_metadata].                                     *)
(***************************************************************************)
\* the code section of a preloaded module, with the function count written
\* count_width bytes wide
PreloadedCodeHeader(bodies, count_width) ==
    LET count == IF count_width = MAX_SIZE_ENCODED_U32
                 THEN encode_padded_u32(Len(bodies))
                 ELSE encode_u32(Len(bodies))
    IN  <<SectionIdCode>> \o encode_u32(Len(count) + Len(BlobBytes(bodies))) \o count

\* a CodeSection::parse that takes the count field to be one byte wide
CodeSection_parse_assumes_short_count(header_bytes, bodies, cursor, import_signatures, function_signatures, indirect_callees) ==
    LET section_size == parse_u32(header_bytes, cursor + 1)
        count == parse_u32(header_bytes, section_size.cursor)
    IN  [ status |-> "Ok",
          section |->
            [ preloaded_count |-> count.value,
              preloaded_reloc_offset |-> 1,
              preloaded_bytes |-> bodies,
              code_builders |-> <<>>,
              dead_code_metadata |->
                  parse_preloads_call_graph(bodies, import_signatures,
                      function_signatures, indirect_callees) ] ]

\* CodeSection::parse, on the section header and the bodies that follow it:
\* [status, section]
CodeSection_parse(header_bytes, bodies, cursor, import_signatures, function_signatures, indirect_callees) ==
    LET failed == [ status |-> "Err",
                    section |-> [ preloaded_count |-> 0, preloaded_reloc_offset |-> 0,
                                  preloaded_bytes |-> <<>>, code_builders |-> <<>>,
                                  dead_code_metadata |->
                                      parse_preloads_call_graph(<<>>, <<>>, <<>>, <<>>) ] ]
    IN  IF cursor >= Len(header_bytes) THEN [failed EXCEPT !.status = "Panic"]
        ELSE IF At(header_bytes, cursor) # SectionIdCode THEN failed
        ELSE LET section_size == parse_u32(header_bytes, cursor + 1)
                 count == parse_u32(header_bytes, section_size.cursor)
             IN  IF ~section_size.ok \/ ~count.ok THEN failed
                 ELSE [ status |-> "Ok",
                        section |->
                          [ preloaded_count |-> count.value,
                            preloaded_reloc_offset |-> count.cursor - section_size.cursor,
                            preloaded_bytes |-> bodies,
                            code_builders |-> <<>>,
                            dead_code_metadata |->
                                parse_preloads_call_graph(bodies, import_signatures,
                                    function_signatures, indirect_callees) ] ]

\* a remove_dead_preloads that forgets the exported functions
CodeSection_remove_dead_preloads_no_exports(section, import_fn_count, exported_fns, called_preload_fns) ==
    LET live == trace_call_graph(section.dead_code_metadata, <<>>, called_preload_fns)
    IN  [ section EXCEPT !.preloaded_bytes =
            copy_preloads_shrinking_dead_fns(<<>>, section.dead_code_metadata,
                section.preloaded_bytes, import_fn_count, live) ]

\* a remove_dead_preloads that copies the live functions behind the old blob
CodeSection_remove_dead_preloads_keeps_blob(section, import_fn_count, exported_fns, called_preload_fns) ==
    LET live == trace_call_graph(section.dead_code_metadata, exported_fns,
                                 called_preload_fns)
    IN  [ section EXCEPT !.preloaded_bytes =
            copy_preloads_shrinking_dead_fns(section.preloaded_bytes,
                section.dead_code_metadata, section.preloaded_bytes,
                import_fn_count, live) ]

\* CodeSection::remove_dead_preloads: only preloaded_bytes is replaced
CodeSection_remove_dead_preloads(section, import_fn_count, exported_fns, called_preload_fns) ==
    LET live_ext_fn_indices ==
            trace_call_graph(section.dead_code_metadata, exported_fns,
                             called_preload_fns)
        buffer ==
            copy_preloads_shrinking_dead_fns(<<>>, section.dead_code_metadata,
                section.preloaded_bytes, import_fn_count, live_ext_fn_indices)
    IN  [section EXCEPT !.preloaded_bytes = buffer]

(***************************************************************************)
(* Export section: [exports], each export [name, ty, index].               *)
(***************************************************************************)
ExportSection_append(section, export) ==
    [section EXCEPT !.exports = Append(@, export)]

\* the indices of the exported functions, as the module hands them to
\* remove_dead_preloads
RECURSIVE exported_fn_indices(_)
exported_fn_indices(exports) ==
    IF exports = <<>> THEN <<>>
    ELSE (IF Head(exports).ty = "Func" THEN <<Head(exports).index>> ELSE <<>>)
         \o exported_fn_indices(Tail(exports))

(***************************************************************************)
(* A preloaded module being trimmed: its imports, its code section, and    *)
(* the sections that hold function indices (export, element, name).        *)
(***************************************************************************)
ImportSignatures == <<0>>

PreloadIndices == Len(ImportSignatures)..(Len(ImportSignatures) + MaxPreloads - 1)

Instructions ==
    [op : {"call"}, arg : 0..(Len(ImportSignatures) + MaxPreloads - 1)]
        \cup [op : {"call_indirect"}, arg : {0, 1}]

\* the code of n functions holding at most budget instructions in all
RECURSIVE CodeLists(_, _)
CodeLists(n, budget) ==
    IF n = 0 THEN {<<>>}
    ELSE UNION { {<<code>> \o rest : rest \in CodeLists(n - 1, budget - Len(code))} :
                 code \in SeqsUpTo(Instructions, budget) }

PreloadedBodies ==
    { [p \in 1..MaxPreloads |-> [fn |-> p, code |-> codes[p]]] :
        codes \in CodeLists(MaxPreloads, MaxCallSites) }

\* the function section of the preloaded module: signatures 1, 0, 1, 0, ...
FunctionSignatures == [p \in 1..MaxPreloads |-> p % 2]

IdleUnit ==
    [ phase |-> "idle", original |-> <<>>,
      code |-> CodeSection_parse(<<>>, <<>>, 0, <<>>, <<>>, <<>>).section,
      export |-> [exports |-> <<>>], names |-> {},
      exported_fns |-> <<>>, called_preload_fns |-> <<>>, written |-> <<>> ]

\* the module as loaded: the code section parsed with the table's functions
LoadedUnit(bodies, element_section) ==
    [ IdleUnit EXCEPT
        !.phase = "loaded",
        !.original = bodies,
        !.code = CodeSection_parse(PreloadedCodeHeader(bodies, 1), bodies, 0,
                     ImportSignatures, FunctionSignatures,
                     ElementSection_indirect_callees(element_section)).section,
        !.names = { [name |-> p, index |-> Len(ImportSignatures) + p - 1] :
                      p \in 1..MaxPreloads } ]

PreloadedTables ==
    { [segments |-> <<[offset |-> 1, fn_indices |-> t]>>] :
        t \in SeqsUpTo(PreloadIndices, 1) }

\* ExportSection::append of a function export, before the module is trimmed
DceExportAppend(index) ==
    /\ unit.phase = "loaded"
    /\ Len(unit.export.exports) < 1
    /\ unit' = [ unit EXCEPT !.export =
                   ExportSection_append(@, [name |-> "f", ty |-> "Func", index |-> index]) ]

\* WasmModule::remove_dead_preloads: trims the code section, rooted at the
\* exported functions and at called_preload_fns
DceRemoveDeadPreloads(called_preload_fns) ==
    /\ unit.phase = "loaded"
    /\ LET exported_fns == exported_fn_indices(unit.export.exports)
       IN  unit' = [ unit EXCEPT
               !.phase = "trimmed",
               !.exported_fns = exported_fns,
               !.called_preload_fns = called_preload_fns,
               !.code = CodeSection_remove_dead_preloads(
                            @, Len(ImportSignatures), exported_fns, called_preload_fns) ]

(***************************************************************************)
(* The remaining sections, as far as size() and serialize read them.       *)
(***************************************************************************)
\* String::skip_bytes: a length prefix and that many bytes; [ok, cursor]
String_skip_bytes(bytes, cursor) ==
    LET len == parse_u32(bytes, cursor)
    IN  IF ~len.ok \/ len.value < 0 THEN [ok |-> FALSE, cursor |-> cursor]
        ELSE [ok |-> TRUE, cursor |-> len.cursor + len.value]

\* u32::skip_bytes: past the first byte without a continuation bit
RECURSIVE u32_skip_bytes_from(_, _, _)
u32_skip_bytes_from(bytes, cursor, i) ==
    IF i >= MAX_SIZE_ENCODED_U32 \/ cursor + i >= Len(bytes)
    THEN [ok |-> FALSE, cursor |-> cursor]
    ELSE IF At(bytes, cursor + i) < 128 THEN [ok |-> TRUE, cursor |-> cursor + i + 1]
    ELSE u32_skip_bytes_from(bytes, cursor, i + 1)

u32_skip_bytes(bytes, cursor) == u32_skip_bytes_from(bytes, cursor, 0)

LimitsIdMin == 0

LimitsIdMinMax == 1

\* Limits is [variant ("Min" | "MinMax"), min, max]
Limits_serialize(limits) ==
    IF limits.variant = "Min" THEN <<LimitsIdMin>> \o encode_u32(limits.min)
    ELSE <<LimitsIdMinMax>> \o encode_u32(limits.min) \o encode_u32(limits.max)

\* Limits::skip_bytes; reading the variant byte past the input panics
Limits_skip_bytes(bytes, cursor) ==
    IF cursor >= Len(bytes) THEN [ok |-> FALSE, cursor |-> cursor]
    ELSE LET min == u32_skip_bytes(bytes, cursor + 1)
         IN  IF ~min.ok THEN min
             ELSE IF At(bytes, cursor) = LimitsIdMinMax
             THEN u32_skip_bytes(bytes, min.cursor)
             ELSE min

RefTypeFunc == 112

\* TableType is [ref_type, limits]
TableType_serialize(ty) == <<ty.ref_type>> \o Limits_serialize(ty.limits)

TableType_skip_bytes(bytes, cursor) == Limits_skip_bytes(bytes, cursor + 1)

\* GlobalType is [value_type, is_mutable]
GlobalType_serialize(ty) ==
    <<ValueTypeByte(ty.value_type), IF ty.is_mutable THEN 1 ELSE 0>>

GlobalType_skip_bytes(bytes, cursor) == [ok |-> TRUE, cursor |-> cursor + 2]

ImportTypeIdFunc == 0

ImportTypeIdTable == 1

ImportTypeIdMem == 2

ImportTypeIdGlobal == 3

\* Import::serialize; an import is [module, name, description], the
\* description [kind, signature_index | ty | limits]
Import_serialize(import) ==
    serialize_vec_u8(import.module) \o serialize_vec_u8(import.name) \o
    CASE import.description.kind = "Func" ->
            <<ImportTypeIdFunc>> \o encode_u32(import.description.signature_index)
      [] import.description.kind = "Table" ->
            <<ImportTypeIdTable>> \o TableType_serialize(import.description.ty)
      [] import.description.kind = "Mem" ->
            <<ImportTypeIdMem>> \o Limits_serialize(import.description.limits)
      [] OTHER ->
            <<ImportTypeIdGlobal>> \o GlobalType_serialize(import.description.ty)

\* ImportSection::size: the stored bytes alone
ImportSection_size(section) == Len(section.bytes)

\* the loop of ImportSection::parse over the imports up to end:
\* [status, count, fn_signatures, bytes, cursor]
RECURSIVE parse_imports(_, _, _, _, _, _)
parse_imports(module_bytes, cursor, end, count, fn_signatures, bytes) ==
    IF cursor >= end
    THEN [status |-> "Ok", count |-> count, fn_signatures |-> fn_signatures,
          bytes |-> bytes, cursor |-> cursor]
    ELSE LET failed == [status |-> "Err", count |-> count,
                        fn_signatures |-> fn_signatures, bytes |-> bytes,
                        cursor |-> cursor]
             namespace == String_skip_bytes(module_bytes, cursor)
             name == String_skip_bytes(module_bytes, namespace.cursor)
         IN  IF ~namespace.ok \/ ~name.ok THEN failed
             ELSE IF name.cursor >= Len(module_bytes)
             THEN [failed EXCEPT !.status = "Panic"]
             ELSE IF At(module_bytes, name.cursor) > 3
             THEN [failed EXCEPT !.status = "Abort"]
             ELSE LET type_id == At(module_bytes, name.cursor)
                      after == name.cursor + 1
                  IN  IF type_id = ImportTypeIdFunc
                      THEN LET sig == parse_u32(module_bytes, after)
                           IN  IF ~sig.ok THEN failed
                               ELSE parse_imports(module_bytes, sig.cursor, end, count,
                                        Append(fn_signatures, sig.value),
                                        bytes \o Slice(module_bytes, cursor, sig.cursor))
                      ELSE LET skipped ==
                                 CASE type_id = ImportTypeIdTable ->
                                        TableType_skip_bytes(module_bytes, after)
                                   [] type_id = ImportTypeIdMem ->
                                        Limits_skip_bytes(module_bytes, after)
                                   [] OTHER -> GlobalType_skip_bytes(module_bytes, after)
                           IN  IF ~skipped.ok THEN failed
                               ELSE parse_imports(module_bytes, skipped.cursor, end,
                                        count - 1, fn_signatures, bytes)

\* an ImportSection::parse that keeps the count and the bytes of every import
ImportSection_parse_keeps_all(module_bytes, cursor) ==
    LET ps == parse_section(SectionIdImport, module_bytes, cursor)
        empty == [count |-> 0, fn_signatures |-> <<>>, bytes |-> <<>>]
    IN  IF ps.status # "Ok" THEN [status |-> "Err", section |-> empty, cursor |-> cursor]
        ELSE LET r == parse_imports(module_bytes, ps.cursor, ps.end, ps.count, <<>>, <<>>)
             IN  [ status |-> r.status,
                   section |-> [count |-> ps.count, fn_signatures |-> r.fn_signatures,
                                bytes |-> Slice(module_bytes, ps.start, r.cursor)],
                   cursor |-> r.cursor ]

\* ImportSection::parse: [status, section, cursor]; only function imports are kept
ImportSection_parse(module_bytes, cursor) ==
    LET ps == parse_section(SectionIdImport, module_bytes, cursor)
        empty == [count |-> 0, fn_signatures |-> <<>>, bytes |-> <<>>]
    IN  IF ps.status # "Ok" THEN [status |-> "Err", section |-> empty, cursor |-> cursor]
        ELSE LET r == parse_imports(module_bytes, ps.cursor, ps.end, ps.count, <<>>, <<>>)
             IN  [ status |-> r.status,
                   section |-> [count |-> r.count, fn_signatures |-> r.fn_signatures,
                                bytes |-> r.bytes],
                   cursor |-> r.cursor ]

\* ImportSection::serialize
ImportSection_serialize(section, buffer) ==
    IF section.bytes = <<>> THEN buffer
    ELSE LET h == write_section_header(buffer, SectionIdImport)
         IN  update_section_size(h.buffer \o encode_u32(section.count) \o section.bytes, h)

\* FunctionSection is [signatures, bytes]
FunctionSection_add_sig(section, sig_id) ==
    [ signatures |-> Append(section.signatures, sig_id),
      bytes |-> section.bytes \o encode_u32(sig_id) ]

FunctionSection_size(section) == MAX_SIZE_SECTION_HEADER + Len(section.bytes)

FunctionSection_serialize(section, buffer) ==
    serialize_bytes_section(SectionIdFunction, Len(section.signatures),
                            section.bytes, buffer)

\* TableSection is [function_table], a TableType
TableSection_size(section) ==
    LET section_id_bytes == 1
        section_length_bytes == 1
        num_tables_bytes == 1
        ref_type_bytes == 1
        limits_bytes == IF section.function_table.limits.variant = "Min"
                        THEN MAX_SIZE_ENCODED_U32
                        ELSE 2 * MAX_SIZE_ENCODED_U32
    IN  section_id_bytes + section_length_bytes + num_tables_bytes + ref_type_bytes
            + limits_bytes

TableSection_serialize(section, buffer) ==
    LET h == write_section_header(buffer, SectionIdTable)
    IN  update_section_size(
            h.buffer \o encode_u32(1) \o TableType_serialize(section.function_table), h)

PAGE_SIZE == 65536

\* (memory_bytes + PAGE_SIZE - 1) / PAGE_SIZE in u32 arithmetic; memory_bytes
\* is a u32 bit pattern. memory_bytes + PAGE_SIZE is added first and
\* overflows for the topmost PAGE_SIZE values: a build that checks overflow
\* panics there, one that does not wraps.
MemoryPagesOverflow(memory_bytes) ==
    memory_bytes < 0 /\ memory_bytes >= -PAGE_SIZE

\* the wrapped result: memory_bytes + PAGE_SIZE - 1 is taken modulo 2^32
PagesFor(memory_bytes) ==
    IF memory_bytes > 0 THEN (memory_bytes - 1) \div PAGE_SIZE + 1
    ELSE IF memory_bytes < 0 /\ memory_bytes >= -(PAGE_SIZE - 1)
    THEN (memory_bytes + (PAGE_SIZE - 1)) \div PAGE_SIZE
    ELSE PAGE_SIZE + ((memory_bytes + (PAGE_SIZE - 1)) \div PAGE_SIZE)

\* MemorySection::new, the wrapped page count where the sum overflows
MemorySection_new(memory_bytes) ==
    IF memory_bytes = 0 THEN [count |-> 0, bytes |-> <<>>]
    ELSE [ count |-> 1,
           bytes |-> Limits_serialize([variant |-> "Min", min |-> PagesFor(memory_bytes),
                                       max |-> 0]) ]

\* section_impl!: MemorySection and GlobalSection are [count, bytes]
BytesSection_size(section) == MAX_SIZE_SECTION_HEADER + Len(section.bytes)

MemorySection_serialize(section, buffer) ==
    serialize_bytes_section(SectionIdMemory, section.count, section.bytes, buffer)

\* Global::serialize; a global is [ty, init], init the i32 of a ConstExpr::I32
Global_serialize(global) == GlobalType_serialize(global.ty) \o ConstExpr_serialize(global.init)

GlobalSection_append(section, global) ==
    [ count |-> I32Add(section.count, 1),
      bytes |-> section.bytes \o Global_serialize(global) ]

GlobalSection_serialize(section, buffer) ==
    serialize_bytes_section(SectionIdGlobal, section.count, section.bytes, buffer)

ExportTypeByte(ty) ==
    CASE ty = "Func" -> 0 [] ty = "Table" -> 1 [] ty = "Mem" -> 2 [] OTHER -> 3

\* Export::serialize; the name of an export is held as its bytes
Export_serialize(export) ==
    serialize_vec_u8(export.name) \o <<ExportTypeByte(export.ty)>>
        \o encode_u32(export.index)

RECURSIVE ExportSection_size_from(_)
ExportSection_size_from(exports) ==
    IF exports = <<>> THEN 0
    ELSE Len(Head(exports).name) + 1 + MAX_SIZE_ENCODED_U32
            + ExportSection_size_from(Tail(exports))

\* ExportSection::size
ExportSection_size(section) == ExportSection_size_from(section.exports)

RECURSIVE serialize_exports(_)
serialize_exports(exports) ==
    IF exports = <<>> THEN <<>>
    ELSE Export_serialize(Head(exports)) \o serialize_exports(Tail(exports))

\* ExportSection::serialize
ExportSection_serialize(section, buffer) ==
    IF section.exports = <<>> THEN buffer
    ELSE LET h == write_section_header(buffer, SectionIdExport)
         IN  update_section_size(
                 h.buffer \o encode_u32(Len(section.exports))
                     \o serialize_exports(section.exports), h)

\* CodeBuilder::size, CodeBuilder::serialize and serialize_with_relocs
\* (code_builder.rs): a code builder is held as the bytes of its function body
CodeBuilder_size(code_builder) == Len(code_builder)

RECURSIVE builders_size(_)
builders_size(code_builders) ==
    IF code_builders = <<>> THEN 0
    ELSE CodeBuilder_size(Head(code_builders)) + builders_size(Tail(code_builders))

\* CodeSection::size
CodeSection_size(section) ==
    MAX_SIZE_SECTION_HEADER + Len(BlobBytes(section.preloaded_bytes))
        + builders_size(section.code_builders)

\* CodeSection::serialize
CodeSection_serialize(section, buffer) ==
    LET h == write_section_header(buffer, SectionIdCode)
    IN  update_section_size(
            h.buffer \o encode_u32(I32Add(section.preloaded_count, Len(section.code_builders)))
                \o BlobBytes(section.preloaded_bytes)
                \o Flatten(section.code_builders), h)

\* CodeSection::serialize_with_relocs: [buffer, code_section_body_index]
CodeSection_serialize_with_relocs(section, buffer) ==
    LET h == write_section_header(buffer, SectionIdCode)
    IN  [ buffer |->
            update_section_size(
                h.buffer
                    \o encode_u32(I32Add(section.preloaded_count, Len(section.code_builders)))
                    \o Flatten(section.code_builders), h),
          code_section_body_index |-> h.body_index ]

DataModeACTIVE == 0

DataModePASSIVE == 0

\* DataMode::serialize; a mode is [variant ("Active" | "Passive"), offset]
DataMode_serialize(mode) ==
    IF mode.variant = "Active"
    THEN <<DataModeACTIVE>> \o ConstExpr_serialize(mode.offset)
    ELSE <<DataModePASSIVE>>

\* DataSegment::serialize; a segment is [mode, init]
DataSegment_serialize(segment) ==
    DataMode_serialize(segment.mode) \o serialize_vec_u8(segment.init)

\* DataSection is [end_addr, count, bytes]
DataSection_size(section) == MAX_SIZE_SECTION_HEADER + Len(section.bytes)

\* DataSection::append_segment: [section, index]
DataSection_append_segment(section, segment) ==
    [ section |-> [ section EXCEPT !.count = I32Add(@, 1),
                                   !.bytes = @ \o DataSegment_serialize(segment) ],
      index |-> section.count ]

DataSection_serialize(section, buffer) ==
    serialize_bytes_section(SectionIdData, section.count, section.bytes, buffer)

\* OpaqueSection is [bytes]
OpaqueSection_size(section) == Len(section.bytes)

\* OpaqueSection::parse: [status, section, cursor]; the whole section, header
\* included, is kept as it is
OpaqueSection_parse(id, module_bytes, cursor) ==
    IF cursor >= Len(module_bytes)
    THEN [status |-> "Panic", section |-> [bytes |-> <<>>], cursor |-> cursor]
    ELSE IF At(module_bytes, cursor) # id
    THEN [status |-> "Ok", section |-> [bytes |-> <<>>], cursor |-> cursor]
    ELSE LET section_size == parse_u32(module_bytes, cursor + 1)
         IN  IF ~section_size.ok
             THEN [status |-> "Err", section |-> [bytes |-> <<>>], cursor |-> cursor]
             ELSE IF section_size.value < 0
                     \/ section_size.cursor + section_size.value > Len(module_bytes)
             THEN [status |-> "Panic", section |-> [bytes |-> <<>>], cursor |-> cursor]
             ELSE [ status |-> "Ok",
                    section |-> [bytes |-> Slice(module_bytes, cursor,
                                           section_size.cursor + section_size.value)],
                    cursor |-> section_size.cursor + section_size.value ]

OpaqueSection_serialize(section, buffer) == buffer \o section.bytes

NameSubSectionsFunctionNames == 1

NAME == <<110, 97, 109, 101>>

\* write_custom_section_header
write_custom_section_header(buffer, name) ==
    [ buffer |-> buffer \o <<SectionIdCustom>> \o <<255, 255, 255, 255, 255>>
                    \o serialize_vec_u8(name),
      size_index |-> Len(buffer) + 1,
      body_index |-> Len(buffer) + 1 + MAX_SIZE_ENCODED_U32 ]

\* NameSection is [bytes, functions], functions the set of <<name, index>>
\* pairs of a map from name to index
NameSection_size(section) == Len(section.bytes)

\* NameSection::append_function
NameSection_append_function(section, index, name) ==
    [ bytes |-> section.bytes \o encode_u32(index) \o serialize_vec_u8(name),
      functions |-> { f \in section.functions : f[1] # name } \cup {<<name, index>>} ]

\* NameSection::serialize
NameSection_serialize(section, buffer) ==
    IF section.bytes = <<>> THEN buffer
    ELSE LET h == write_custom_section_header(buffer, NAME)
         IN  update_section_size(
                 h.buffer \o <<NameSubSectionsFunctionNames>>
                     \o encode_u32(MAX_SIZE_ENCODED_U32 + Len(section.bytes))
                     \o encode_padded_u32(Cardinality(section.functions))
                     \o section.bytes, h)

(***************************************************************************)
(* The section parsers. Each returns [status, section, cursor, message]:   *)
(* "Ok", "Err" (a ParseError), or "Panic" where the code indexes or slices *)
(* outside the input or unwraps an error. Debug assertions and overflow    *)
(* checks are those of a build without them.                               *)
(***************************************************************************)
Parsed(section, cursor) ==
    [status |-> "Ok", section |-> section, cursor |-> cursor, message |-> ""]

ParseErr(section, cursor, message) ==
    [status |-> "Err", section |-> section, cursor |-> cursor, message |-> message]

ParsePanic(section, cursor) ==
    [status |-> "Panic", section |-> section, cursor |-> cursor, message |-> ""]

\* <&str>::parse: a length prefix and that many bytes; [ok, value, cursor]
Str_parse(bytes, cursor) ==
    LET len == parse_u32(bytes, cursor)
    IN  IF ~len.ok \/ len.value < 0 \/ len.cursor + len.value > Len(bytes)
        THEN [ok |-> FALSE, value |-> <<>>, cursor |-> cursor]
        ELSE [ ok |-> TRUE, value |-> Slice(bytes, len.cursor, len.cursor + len.value),
               cursor |-> len.cursor + len.value ]

\* module_bytes[range] of a parsed section header is within the input
RangeInside(ps, module_bytes) == ps.start <= ps.end /\ ps.end <= Len(module_bytes)

EmptyBytesSection == [count |-> 0, bytes |-> <<>>]

\* section_impl! parse, of MemorySection and GlobalSection
BytesSection_parse(id, module_bytes, cursor) ==
    LET ps == parse_section(id, module_bytes, cursor)
    IN  IF ps.status # "Ok" THEN ParseErr(EmptyBytesSection, cursor, ps.message)
        ELSE IF ~RangeInside(ps, module_bytes) THEN ParsePanic(EmptyBytesSection, ps.cursor)
        ELSE Parsed([count |-> ps.count, bytes |-> Slice(module_bytes, ps.start, ps.end)],
                    ps.end)

EmptyFunctionSection == [signatures |-> <<>>, bytes |-> <<>>]

\* FunctionSection::parse
FunctionSection_parse(module_bytes, cursor) ==
    LET ps == parse_section(SectionIdFunction, module_bytes, cursor)
    IN  IF ps.status # "Ok" THEN ParseErr(EmptyFunctionSection, cursor, ps.message)
        ELSE IF ~RangeInside(ps, module_bytes)
        THEN ParsePanic(EmptyFunctionSection, ps.cursor)
        ELSE LET sigs == parse_u32_seq(module_bytes, ps.cursor, ps.count, <<>>)
             IN  IF ~sigs.ok
                 THEN ParseErr(EmptyFunctionSection, sigs.cursor, "Failed to decode u32")
                 ELSE Parsed([ signatures |-> sigs.values,
                               bytes |-> Slice(module_bytes, ps.start, ps.end) ], ps.end)

\* Limits::parse: [status, limits, cursor]; the variant byte is indexed and
\* both numbers are unwrapped
Limits_parse(bytes, cursor) ==
    LET none == [variant |-> "Min", min |-> 0, max |-> 0]
    IN  IF cursor >= Len(bytes) THEN [status |-> "Panic", limits |-> none, cursor |-> cursor]
        ELSE LET variant_id == At(bytes, cursor)
                 min == parse_u32(bytes, cursor + 1)
             IN  IF ~min.ok THEN [status |-> "Panic", limits |-> none, cursor |-> cursor + 1]
                 ELSE IF variant_id = LimitsIdMinMax
                 THEN LET max == parse_u32(bytes, min.cursor)
                      IN  IF ~max.ok
                          THEN [status |-> "Panic", limits |-> none, cursor |-> min.cursor]
                          ELSE [ status |-> "Ok",
                                 limits |-> [variant |-> "MinMax", min |-> min.value,
                                             max |-> max.value],
                                 cursor |-> max.cursor ]
                 ELSE [ status |-> "Ok",
                        limits |-> [variant |-> "Min", min |-> min.value, max |-> 0],
                        cursor |-> min.cursor ]

FuncTable(limits) == [function_table |-> [ref_type |-> RefTypeFunc, limits |-> limits]]

EmptyTableSection == FuncTable([variant |-> "MinMax", min |-> 0, max |-> 0])

\* a TableSection::parse that reads the first table of several and any
\* reference type
TableSection_parse_takes_any_table(module_bytes, cursor) ==
    LET ps == parse_section(SectionIdTable, module_bytes, cursor)
    IN  IF ps.status # "Ok" THEN ParseErr(EmptyTableSection, cursor, ps.message)
        ELSE IF ps.count = 0 THEN Parsed(EmptyTableSection, ps.end)
        ELSE IF ps.start >= Len(module_bytes) THEN ParsePanic(EmptyTableSection, ps.cursor)
        ELSE LET limits == Limits_parse(module_bytes, ps.cursor)
             IN  IF limits.status # "Ok" THEN ParsePanic(EmptyTableSection, limits.cursor)
                 ELSE Parsed(FuncTable(limits.limits), ps.end)

\* TableSection::parse. With one table, Limits::parse is called with the
\* cursor still on the reference type byte.
TableSection_parse(module_bytes, cursor) ==
    LET ps == parse_section(SectionIdTable, module_bytes, cursor)
    IN  IF ps.status # "Ok" THEN ParseErr(EmptyTableSection, cursor, ps.message)
        ELSE IF ps.count = 0 THEN Parsed(EmptyTableSection, ps.end)
        ELSE IF ps.count = 1
        THEN IF ps.start >= Len(module_bytes) THEN ParsePanic(EmptyTableSection, ps.cursor)
             ELSE IF At(module_bytes, ps.start) # RefTypeFunc
             THEN ParseErr(EmptyTableSection, ps.cursor, "Only funcref tables are supported")
             ELSE LET limits == Limits_parse(module_bytes, ps.cursor)
                  IN  IF limits.status # "Ok"
                      THEN ParsePanic(EmptyTableSection, limits.cursor)
                      ELSE Parsed(FuncTable(limits.limits), ps.end)
        ELSE ParseErr(EmptyTableSection, ps.cursor, "Multiple tables are not supported")

ExportTypeOf(byte) ==
    CASE byte = 0 -> "Func" [] byte = 1 -> "Table" [] byte = 2 -> "Mem" [] OTHER -> "Global"

\* Export::parse: [status ("Ok" | "Err" | "Panic" | "Abort"), export, cursor];
\* "Abort" is the internal_error! of an invalid export type
Export_parse(bytes, cursor) ==
    LET none == [name |-> <<>>, ty |-> "Func", index |-> 0]
        name == Str_parse(bytes, cursor)
    IN  IF ~name.ok THEN [status |-> "Err", export |-> none, cursor |-> cursor]
        ELSE IF name.cursor >= Len(bytes)
        THEN [status |-> "Panic", export |-> none, cursor |-> name.cursor]
        ELSE IF At(bytes, name.cursor) > 3
        THEN [status |-> "Abort", export |-> none, cursor |-> name.cursor]
        ELSE LET index == parse_u32(bytes, name.cursor + 1)
             IN  IF ~index.ok
                 THEN [status |-> "Err", export |-> none, cursor |-> name.cursor + 1]
                 ELSE [ status |-> "Ok",
                        export |-> [ name |-> name.value,
                                     ty |-> ExportTypeOf(At(bytes, name.cursor)),
                                     index |-> index.value ],
                        cursor |-> index.cursor ]

RECURSIVE parse_exports(_, _, _, _)
parse_exports(module_bytes, cursor, end, exports) ==
    IF cursor >= end THEN [status |-> "Ok", exports |-> exports, cursor |-> cursor]
    ELSE LET export == Export_parse(module_bytes, cursor)
         IN  IF export.status # "Ok"
             THEN [status |-> export.status, exports |-> exports, cursor |-> export.cursor]
             ELSE parse_exports(module_bytes, export.cursor, end,
                                Append(exports, export.export))

\* ExportSection::parse
ExportSection_parse(module_bytes, cursor) ==
    LET ps == parse_section(SectionIdExport, module_bytes, cursor)
    IN  IF ps.status # "Ok" THEN ParseErr([exports |-> <<>>], cursor, ps.message)
        ELSE LET r == parse_exports(module_bytes, ps.cursor, ps.end, <<>>)
             IN  [ status |-> r.status, section |-> [exports |-> r.exports],
                   cursor |-> r.cursor, message |-> "" ]

\* ConstExpr::parse_u32: [status, value, cursor]; the opcode and the end
\* marker are indexed, the value is read as an unsigned LEB128
ConstExpr_parse_u32(bytes, cursor) ==
    IF cursor >= Len(bytes) THEN [status |-> "Panic", value |-> 0, cursor |-> cursor]
    ELSE IF At(bytes, cursor) # OpCodeI32CONST
    THEN [status |-> "Err", value |-> 0, cursor |-> cursor]
    ELSE LET value == parse_u32(bytes, cursor + 1)
         IN  IF ~value.ok THEN [status |-> "Err", value |-> 0, cursor |-> cursor + 1]
             ELSE IF value.cursor >= Len(bytes)
             THEN [status |-> "Panic", value |-> 0, cursor |-> value.cursor]
             ELSE IF At(bytes, value.cursor) # OpCodeEND
             THEN [status |-> "Err", value |-> 0, cursor |-> value.cursor]
             ELSE [status |-> "Ok", value |-> value.value, cursor |-> value.cursor + 1]

PassiveMode == [variant |-> "Passive", offset |-> 0]

ActiveMode(offset) == [variant |-> "Active", offset |-> offset]

\* DataMode::parse: [status, mode, cursor]
DataMode_parse(bytes, cursor) ==
    IF cursor >= Len(bytes) THEN [status |-> "Panic", mode |-> PassiveMode, cursor |-> cursor]
    ELSE LET variant_id == At(bytes, cursor)
         IN  IF variant_id = DataModeACTIVE
             THEN LET offset == ConstExpr_parse_u32(bytes, cursor + 1)
                  IN  [ status |-> offset.status, mode |-> ActiveMode(offset.value),
                        cursor |-> offset.cursor ]
             ELSE IF variant_id = DataModePASSIVE
             THEN [status |-> "Ok", mode |-> PassiveMode, cursor |-> cursor + 1]
             ELSE [status |-> "Err", mode |-> PassiveMode, cursor |-> cursor + 1]

\* the loop of DataSection::parse over count segments:
\* [status, end_addr, modes, cursor]; offsets are compared as i32
RECURSIVE parse_data_segments(_, _, _, _, _)
parse_data_segments(module_bytes, cursor, count, end_addr, modes) ==
    IF count = 0
    THEN [status |-> "Ok", end_addr |-> end_addr, modes |-> modes, cursor |-> cursor]
    ELSE LET mode == DataMode_parse(module_bytes, cursor)
             failed(status, at) ==
                 [status |-> status, end_addr |-> end_addr, modes |-> modes, cursor |-> at]
         IN  IF mode.status # "Ok" THEN failed(mode.status, mode.cursor)
             ELSE LET segment_bytes_len == parse_u32(module_bytes, mode.cursor)
                      next_addr ==
                          IF mode.mode.variant = "Active" /\ mode.mode.offset > end_addr
                          THEN mode.mode.offset ELSE end_addr
                  IN  IF ~segment_bytes_len.ok THEN failed("Err", mode.cursor)
                      ELSE parse_data_segments(module_bytes,
                               IF segment_bytes_len.value < 0 THEN MaxI32
                               ELSE segment_bytes_len.cursor + segment_bytes_len.value,
                               count - 1, next_addr, Append(modes, mode.mode))

EmptyDataSection == [end_addr |-> 0, count |-> 0, bytes |-> <<>>]

\* DataSection::parse: [status, section, modes, cursor, message]
DataSection_parse(module_bytes, cursor) ==
    LET ps == parse_section(SectionIdData, module_bytes, cursor)
        failed(status, at, message) ==
            [ status |-> status, section |-> EmptyDataSection, modes |-> <<>>,
              cursor |-> at, message |-> message ]
    IN  IF ps.status # "Ok" THEN failed("Err", cursor, ps.message)
        ELSE IF ~RangeInside(ps, module_bytes) THEN failed("Panic", ps.cursor, "")
        ELSE LET r == parse_data_segments(module_bytes, ps.cursor, ps.count, 0, <<>>)
             IN  IF r.status # "Ok" THEN failed(r.status, r.cursor, "")
                 ELSE [ status |-> "Ok",
                        section |-> [ end_addr |-> r.end_addr, count |-> ps.count,
                                      bytes |-> Slice(module_bytes, ps.start, ps.end) ],
                        modes |-> r.modes, cursor |-> r.cursor, message |-> "" ]

EmptyNameSection == [bytes |-> <<>>, functions |-> {}]

\* the search of NameSection::parse for the function names subsection, over
\* at most two subsections: [status, cursor]
RECURSIVE find_function_names(_, _, _, _)
find_function_names(module_bytes, cursor, section_end, tries) ==
    IF tries = 0 THEN [status |-> "Err", cursor |-> cursor]
    ELSE IF cursor >= Len(module_bytes) THEN [status |-> "Panic", cursor |-> cursor]
    ELSE LET subsection_size == parse_u32(module_bytes, cursor + 1)
             after == IF subsection_size.value < 0 THEN MaxI32
                      ELSE subsection_size.cursor + subsection_size.value
         IN  IF ~subsection_size.ok THEN [status |-> "Err", cursor |-> cursor + 1]
             ELSE IF At(module_bytes, cursor) = NameSubSectionsFunctionNames
             THEN [status |-> "Ok", cursor |-> subsection_size.cursor]
             ELSE IF after >= section_end THEN [status |-> "Err", cursor |-> after]
             ELSE find_function_names(module_bytes, after, section_end, tries - 1)

\* the entries of the function names subsection: [ok, functions, cursor];
\* a later entry of a name replaces the earlier one in the map
RECURSIVE parse_name_entries(_, _, _, _)
parse_name_entries(module_bytes, cursor, num_entries, functions) ==
    IF num_entries = 0 THEN [ok |-> TRUE, functions |-> functions, cursor |-> cursor]
    ELSE LET fn_index == parse_u32(module_bytes, cursor)
             name == Str_parse(module_bytes, fn_index.cursor)
         IN  IF ~fn_index.ok \/ ~name.ok
             THEN [ok |-> FALSE, functions |-> functions, cursor |-> cursor]
             ELSE parse_name_entries(module_bytes, name.cursor, num_entries - 1,
                      {e \in functions : e[1] # name.value}
                          \cup {<<name.value, fn_index.value>>})

\* NameSection::parse
NameSection_parse(module_bytes, cursor) ==
    IF cursor >= Len(module_bytes) THEN Parsed(EmptyNameSection, cursor)
    ELSE IF At(module_bytes, cursor) # SectionIdCustom
    THEN ParseErr(EmptyNameSection, cursor, "Expected section ID")
    ELSE LET section_size == parse_u32(module_bytes, cursor + 1)
             section_end == IF section_size.value < 0 THEN MaxI32
                            ELSE section_size.cursor + section_size.value
             section_name == Str_parse(module_bytes, section_size.cursor)
         IN  IF ~section_size.ok \/ ~section_name.ok
             THEN ParseErr(EmptyNameSection, cursor + 1, "Failed to decode")
             ELSE IF section_name.value # NAME
             THEN ParseErr(EmptyNameSection, section_name.cursor, "Expected Custom section")
             ELSE LET found == find_function_names(module_bytes, section_name.cursor,
                                                   section_end, 2)
                      num_entries == parse_u32(module_bytes, found.cursor)
                      entries == parse_name_entries(module_bytes, num_entries.cursor,
                                                    num_entries.value, {})
                  IN  IF found.status = "Panic"
                      THEN ParsePanic(EmptyNameSection, found.cursor)
                      ELSE IF found.status = "Err"
                      THEN ParseErr(EmptyNameSection, found.cursor,
                                    "Failed to parse Name section")
                      ELSE IF ~num_entries.ok \/ ~entries.ok
                      THEN ParseErr(EmptyNameSection, found.cursor, "Failed to decode")
                      ELSE Parsed([ bytes |-> Slice(module_bytes, num_entries.cursor,
                                                    entries.cursor),
                                    functions |-> entries.functions ], section_end)

\* CodeSection::parse up to the copy of the bodies, on the bytes of a module:
\* the section id is indexed, and so is the range of the bodies
CodeSection_parse_bytes(module_bytes, cursor) ==
    LET none == [preloaded_count |-> 0, preloaded_reloc_offset |-> 0, preloaded_bytes |-> <<>>]
    IN  IF cursor >= Len(module_bytes) THEN ParsePanic(none, cursor)
        ELSE IF At(module_bytes, cursor) # SectionIdCode
        THEN ParseErr(none, cursor, "Missing code section!")
        ELSE LET section_size == parse_u32(module_bytes, cursor + 1)
                 count == parse_u32(module_bytes, section_size.cursor)
                 next_section_start == IF section_size.value < 0 THEN MaxI32
                                       ELSE section_size.cursor + section_size.value
             IN  IF ~section_size.ok \/ ~count.ok
                 THEN ParseErr(none, cursor + 1, "Failed to decode u32")
                 ELSE IF count.cursor > next_section_start
                         \/ next_section_start > Len(module_bytes)
                 THEN ParsePanic(none, next_section_start)
                 ELSE Parsed([ preloaded_count |-> count.value,
                               preloaded_reloc_offset |-> count.cursor - section_size.cursor,
                               preloaded_bytes |-> Slice(module_bytes, count.cursor,
                                                         next_section_start) ],
                             next_section_start)

(***************************************************************************)
(* Any one section, sized and serialized as the module writer does: sect   *)
(* is [kind, value], out what the last serialization appended.             *)
(***************************************************************************)
\* Section::size and the inherent size() of the sections outside the trait
SectionSize(s) ==
    CASE s.kind = "Type" -> TypeSection_size(s.value)
      [] s.kind = "Import" -> ImportSection_size(s.value)
      [] s.kind = "Function" -> FunctionSection_size(s.value)
      [] s.kind = "Table" -> TableSection_size(s.value)
      [] s.kind = "Memory" -> BytesSection_size(s.value)
      [] s.kind = "Global" -> BytesSection_size(s.value)
      [] s.kind = "Export" -> ExportSection_size(s.value)
      [] s.kind = "Element" -> ElementSection_size(s.value)
      [] s.kind = "Code" -> CodeSection_size(s.value)
      [] s.kind = "Data" -> DataSection_size(s.value)
      [] s.kind = "Name" -> NameSection_size(s.value)
      [] OTHER -> OpaqueSection_size(s.value)

\* Serialize::serialize of each section
SectionSerialize(s, buffer) ==
    CASE s.kind = "Type" -> TypeSection_serialize(s.value, buffer)
      [] s.kind = "Import" -> ImportSection_serialize(s.value, buffer)
      [] s.kind = "Function" -> FunctionSection_serialize(s.value, buffer)
      [] s.kind = "Table" -> TableSection_serialize(s.value, buffer)
      [] s.kind = "Memory" -> MemorySection_serialize(s.value, buffer)
      [] s.kind = "Global" -> GlobalSection_serialize(s.value, buffer)
      [] s.kind = "Export" -> ExportSection_serialize(s.value, buffer)
      [] s.kind = "Element" -> ElementSection_serialize(s.value, buffer)
      [] s.kind = "Code" -> CodeSection_serialize(s.value, buffer)
      [] s.kind = "Data" -> DataSection_serialize(s.value, buffer)
      [] s.kind = "Name" -> NameSection_serialize(s.value, buffer)
      [] OTHER -> OpaqueSection_serialize(s.value, buffer)

\* u32 values of every encoded width: 1, 2 and 5 bytes
U32Samples == {0, 128, -1}

ExampleNames == {<<>>, <<97>>, <<109, 97, 105, 110>>}

ExampleImports ==
    { [module |-> <<97>>, name |-> <<98>>,
       description |-> [kind |-> "Func", signature_index |-> 0]],
      [module |-> <<97>>, name |-> <<>>,
       description |-> [kind |-> "Func", signature_index |-> 128]],
      [module |-> <<97>>, name |-> <<116>>,
       description |-> [kind |-> "Table",
                        ty |-> [ref_type |-> RefTypeFunc,
                                limits |-> [variant |-> "Min", min |-> 1, max |-> 0]]]],
      [module |-> <<97>>, name |-> <<109>>,
       description |-> [kind |-> "Mem",
                        limits |-> [variant |-> "MinMax", min |-> 1, max |-> 128]]],
      [module |-> <<97>>, name |-> <<103>>,
       description |-> [kind |-> "Global",
                        ty |-> [value_type |-> "I32", is_mutable |-> TRUE]]] }

RECURSIVE serialize_imports(_)
serialize_imports(imports) ==
    IF imports = <<>> THEN <<>>
    ELSE Import_serialize(Head(imports)) \o serialize_imports(Tail(imports))

\* the import section of a preloaded module
PreloadedImportSection(imports) ==
    LET body == encode_u32(Len(imports)) \o serialize_imports(imports)
    IN  <<SectionIdImport>> \o encode_u32(Len(body)) \o body

\* import sections of preloaded modules, and a module without one
ImportInputs ==
    { PreloadedImportSection(imports) : imports \in SeqsUpTo(ExampleImports, MaxItems) \ {<<>>} }
        \cup {<<SectionIdFunction, 1, 0>>}

ExampleLimits ==
    [variant : {"Min"}, min : U32Samples, max : {0}]
        \cup [variant : {"MinMax"}, min : U32Samples, max : U32Samples]

MemoryRequests == {0, 1, PAGE_SIZE, PAGE_SIZE + 1, MaxI32, -PAGE_SIZE, -1}

\* code sections of preloaded modules of at most one function
SmallBodies ==
    {<<>>} \cup { <<[fn |-> 1, code |-> code]>> : code \in SeqsUpTo(Instructions, 1) }

SectionIdStart == 8

\* a start section of a preloaded module, and a module without one
OpaqueInputs == {<<SectionIdStart, 1, 0>>, <<SectionIdElement, 1, 0>>}

\* each section as the module starts with it: constructed empty, or parsed
\* from the preloaded module; a code section comes with the bytes it was
\* parsed from
FreshSections ==
    {[kind |-> "Type", value |-> NewTypeSection]}
    \cup { [kind |-> "Import", value |-> ImportSection_parse(bytes, 0).section] :
             bytes \in ImportInputs }
    \cup {[kind |-> "Function", value |-> [signatures |-> <<>>, bytes |-> <<>>]]}
    \cup { [kind |-> "Table",
            value |-> [function_table |-> [ref_type |-> RefTypeFunc, limits |-> limits]]] :
             limits \in ExampleLimits }
    \cup { [kind |-> "Memory", value |-> MemorySection_new(memory_bytes)] :
             memory_bytes \in MemoryRequests }
    \cup {[kind |-> "Global", value |-> [count |-> 0, bytes |-> <<>>]]}
    \cup {[kind |-> "Export", value |-> [exports |-> <<>>]]}
    \cup {[kind |-> "Element", value |-> section] : section \in ParsedElementSections}
    \cup { [kind |-> "Code",
            value |-> CodeSection_parse(PreloadedCodeHeader(bodies, width), bodies, 0,
                          ImportSignatures, FunctionSignatures, <<>>).section,
            module_bytes |-> PreloadedCodeHeader(bodies, width) \o BlobBytes(bodies)] :
             bodies \in SmallBodies, width \in {1, MAX_SIZE_ENCODED_U32} }
    \cup {[kind |-> "Data", value |-> [end_addr |-> 0, count |-> 0, bytes |-> <<>>]]}
    \cup {[kind |-> "Name", value |-> [bytes |-> <<>>, functions |-> {}]]}
    \cup { [kind |-> "Opaque",
            value |-> OpaqueSection_parse(SectionIdStart, bytes, 0).section] :
             bytes \in OpaqueInputs }

IdleParse == [kind |-> "none"]

IdlePatch == [stage |-> "none"]

IdleData == [stage |-> "none"]

IdleSect == [kind |-> "none", value |-> <<>>]

IdleOut == [op |-> "none", size |-> 0, appended |-> 0, items |-> 0, written |-> <<>>]

\* out after an operation that grew the section by one entry
Grown ==
    [op |-> "append", size |-> 0, appended |-> 0, items |-> out.items + 1, written |-> <<>>]

SizeTypeInsert(signature) ==
    /\ sect.kind = "Type" /\ out.items < MaxItems
    /\ sect' = [sect EXCEPT !.value = TypeSection_insert(@, signature).section]
    /\ out' = Grown

SizeFunctionAddSig(sig_id) ==
    /\ sect.kind = "Function" /\ out.items < MaxItems
    /\ sect' = [sect EXCEPT !.value = FunctionSection_add_sig(@, sig_id)]
    /\ out' = Grown

SizeGlobalAppend(global) ==
    /\ sect.kind = "Global" /\ out.items < MaxItems
    /\ sect' = [sect EXCEPT !.value = GlobalSection_append(@, global)]
    /\ out' = Grown

SizeExportAppend(export) ==
    /\ sect.kind = "Export" /\ out.items < MaxItems
    /\ sect' = [sect EXCEPT !.value = ExportSection_append(@, export)]
    /\ out' = Grown

SizeElementGetFnTableIndex(fn_index) ==
    /\ sect.kind = "Element" /\ out.items < MaxItems
    /\ sect' = [sect EXCEPT !.value = ElementSection_get_fn_table_index(@, fn_index).section]
    /\ out' = Grown

SizeDataAppendSegment(segment) ==
    /\ sect.kind = "Data" /\ out.items < MaxItems
    /\ sect' = [sect EXCEPT !.value = DataSection_append_segment(@, segment).section]
    /\ out' = Grown

SizeNameAppendFunction(index, name) ==
    /\ sect.kind = "Name" /\ out.items < MaxItems
    /\ sect' = [sect EXCEPT !.value = NameSection_append_function(@, index, name)]
    /\ out' = Grown

\* the preamble of a module, and the nothing of a section written on its own
OutputBuffers == {<<>>, <<0, 97, 115, 109, 1, 0, 0, 0>>}

\* size() is asked, then the section is serialized behind buffer
SizeSerialize(buffer) ==
    /\ out.op # "serialize"
    /\ sect' = sect
    /\ out' = [ out EXCEPT
           !.op = "serialize",
           !.size = SectionSize(sect),
           !.appended = Len(SectionSerialize(sect, buffer)) - Len(buffer),
           !.written = Slice(SectionSerialize(sect, buffer), Len(buffer),
                             Len(SectionSerialize(sect, buffer))) ]

\* function bodies as the code generator builds them: a size, the local
\* declarations, the instructions and the end marker
ExampleCodeBuilders == {<<2, 0, OpCodeEND>>, <<4, 0, OpCodeI32CONST, 0, OpCodeEND>>}

\* the backend adds the code builder of a generated function
SizeCodeAddBuilder(code_builder) ==
    /\ sect.kind = "Code" /\ out.items < MaxItems
    /\ sect' = [sect EXCEPT !.value.code_builders = Append(@, code_builder)]
    /\ out' = Grown

\* the code section is serialized behind buffer, for an object file
SizeSerializeWithRelocs(buffer) ==
    /\ sect.kind = "Code" /\ out.op # "serialize_with_relocs"
    /\ sect' = sect
    /\ out' = [ out EXCEPT
           !.op = "serialize_with_relocs",
           !.size = SectionSize(sect),
           !.appended = Len(CodeSection_serialize_with_relocs(sect.value, buffer).buffer)
                            - Len(buffer),
           !.written = Slice(CodeSection_serialize_with_relocs(sect.value, buffer).buffer,
                             Len(buffer),
                             Len(CodeSection_serialize_with_relocs(sect.value, buffer).buffer)) ]

otherThanSect == <<types, typeLog, element, elemLog, unit, parse, patch, data>>

ExampleGlobals ==
    [ ty : [value_type : {"I32"}, is_mutable : {TRUE, FALSE}],
      init : {0, -1, MaxI32} ]

ExampleExports == [name : ExampleNames, ty : {"Func", "Global"}, index : U32Samples]

ExampleDataSegments ==
    [mode : {[variant |-> "Passive", offset |-> 0]}, init : {<<>>, <<1, 2>>}]
        \cup [ mode : [variant : {"Active"}, offset : {0, -1, MaxI32}],
               init : {<<>>, <<1, 2>>} ]

SizeNext ==
    \/ \E signature \in ExampleSignatures : SizeTypeInsert(signature) /\ UNCHANGED otherThanSect
    \/ \E sig_id \in U32Samples : SizeFunctionAddSig(sig_id) /\ UNCHANGED otherThanSect
    \/ \E global \in ExampleGlobals : SizeGlobalAppend(global) /\ UNCHANGED otherThanSect
    \/ \E export \in ExampleExports : SizeExportAppend(export) /\ UNCHANGED otherThanSect
    \/ \E fn_index \in 0..MaxFn : SizeElementGetFnTableIndex(fn_index) /\ UNCHANGED otherThanSect
    \/ \E segment \in ExampleDataSegments : SizeDataAppendSegment(segment) /\ UNCHANGED otherThanSect
    \/ \E index \in U32Samples, name \in ExampleNames :
         SizeNameAppendFunction(index, name) /\ UNCHANGED otherThanSect
    \/ \E code_builder \in ExampleCodeBuilders :
         SizeCodeAddBuilder(code_builder) /\ UNCHANGED otherThanSect
    \/ \E buffer \in OutputBuffers : SizeSerialize(buffer) /\ UNCHANGED otherThanSect
    \/ \E buffer \in OutputBuffers : SizeSerializeWithRelocs(buffer) /\ UNCHANGED otherThanSect

(***************************************************************************)
(* Parsing a preloaded module: parse holds the bytes and the cursor a      *)
(* section parser is called with and, once it has run, which parser it was *)
(* and what it returned. Where the bytes were written by this code from    *)
(* data segments or imports, given holds them.                             *)
(***************************************************************************)
RECURSIVE append_segments(_, _)
append_segments(section, segments) ==
    IF segments = <<>> THEN section
    ELSE append_segments(DataSection_append_segment(section, Head(segments)).section,
                         Tail(segments))

\* the data section this code writes for the segments
WrittenDataSection(segments) ==
    DataSection_serialize(append_segments(EmptyDataSection, segments), <<>>)

DataOffsets == {0, 64, MaxI32, MinI32, -1}

DataSegments ==
    [mode : {PassiveMode}, init : {<<>>, <<1, 2>>}]
        \cup [mode : {ActiveMode(offset) : offset \in DataOffsets}, init : {<<7>>}]

\* sections as this code writes them, one of each kind
WrittenSections ==
    { SectionSerialize(s, <<>>) : s \in
        { [kind |-> "Type",
           value |-> TypeSection_insert(NewTypeSection,
                         [param_types |-> <<"I32", "I64">>, ret_type |-> "I32"]).section],
          [kind |-> "Function",
           value |-> FunctionSection_add_sig(EmptyFunctionSection, 128)],
          [kind |-> "Table",
           value |-> FuncTable([variant |-> "MinMax", min |-> 1, max |-> 128])],
          [kind |-> "Table", value |-> FuncTable([variant |-> "Min", min |-> 3, max |-> 0])],
          [kind |-> "Memory", value |-> MemorySection_new(PAGE_SIZE + 1)],
          [kind |-> "Global",
           value |-> GlobalSection_append(EmptyBytesSection,
                         [ty |-> [value_type |-> "I32", is_mutable |-> TRUE], init |-> 64])],
          [kind |-> "Export",
           value |-> ExportSection_append([exports |-> <<>>],
                         [name |-> <<109, 97, 105, 110>>, ty |-> "Func", index |-> 1])],
          [kind |-> "Element",
           value |-> [segments |-> <<[offset |-> 1, fn_indices |-> <<0, 1>>]>>]],
          [kind |-> "Name",
           value |-> NameSection_append_function(EmptyNameSection, 1, <<109>>)] } }

\* sections of a module written by another tool, with sizes of one byte
ForeignSections ==
    { <<SectionIdStart, 1, 0>>,
      PreloadedImportSection(<<
          [module |-> <<97>>, name |-> <<109>>,
           description |-> [kind |-> "Mem",
                            limits |-> [variant |-> "MinMax", min |-> 1, max |-> 128]]],
          [module |-> <<97>>, name |-> <<98>>,
           description |-> [kind |-> "Func", signature_index |-> 0]] >>),
      PreloadedCodeHeader(<<[fn |-> 1, code |-> <<>>]>>, 1)
          \o BlobBytes(<<[fn |-> 1, code |-> <<>>]>>),
      <<SectionIdTable, 1, 0>>,
      <<SectionIdTable, 4, 1, RefTypeFunc, LimitsIdMinMax, 2, 5>>,
      <<SectionIdElement, 7, 1, ActiveImplicitTableIndex, OpCodeI32CONST, 1, OpCodeEND, 2, 0, 1>>,
      <<SectionIdData, 1, 0>>,
      <<SectionIdData, 7, 1, DataModeACTIVE, OpCodeI32CONST, 8, OpCodeEND, 2, 1, 2>> }

\* custom sections of a module written by another tool: a name section
\* with the module name or the local names ahead of the function names,
\* with the function names third, with one name twice, with no subsection
\* at all (alone and ahead of a type section), and a section named "link"
NameSectionInputs ==
    { <<SectionIdCustom, 18>> \o serialize_vec_u8(NAME)
          \o <<0, 2, 1, 109>> \o <<NameSubSectionsFunctionNames, 7, 2, 0, 1, 97, 1, 1, 98>>,
      <<SectionIdCustom, 14>> \o serialize_vec_u8(NAME)
          \o <<2, 1, 0>> \o <<NameSubSectionsFunctionNames, 4, 1, 0, 1, 97>>,
      <<SectionIdCustom, 17>> \o serialize_vec_u8(NAME)
          \o <<0, 1, 0>> \o <<2, 1, 0>> \o <<NameSubSectionsFunctionNames, 4, 1, 0, 1, 97>>,
      <<SectionIdCustom, 14>> \o serialize_vec_u8(NAME)
          \o <<NameSubSectionsFunctionNames, 7, 2, 0, 1, 97, 1, 1, 97>>,
      <<SectionIdCustom, 5>> \o serialize_vec_u8(NAME),
      <<SectionIdCustom, 5>> \o serialize_vec_u8(NAME)
          \o <<SectionIdType, 4, 1, SEPARATOR, 0, 0>>,
      <<SectionIdCustom, 5>> \o serialize_vec_u8(<<108, 105, 110, 107>>) }

\* what a damaged or unsupported module may hold: a size that is smaller
\* than the count field or larger than the input, tables that are not
\* supported, a wrong constant expression, an invalid type tag
DamagedSections ==
    { <<id, 0, 1>> : id \in SectionIdCustom..SectionIdData }
        \cup { <<id, 9, 1>> : id \in SectionIdCustom..SectionIdData }
        \cup { <<SectionIdTable, 1, 1>>,
               <<SectionIdTable, 4, 1, 111, LimitsIdMin, 0>>,
               <<SectionIdTable, 7, 2, RefTypeFunc, LimitsIdMin, 0, RefTypeFunc, LimitsIdMin, 0>>,
               <<SectionIdTable, 3, 1, RefTypeFunc, LimitsIdMin>>,
               <<SectionIdElement, 6, 1, 1, OpCodeI32CONST, 1, OpCodeEND, 0>>,
               <<SectionIdData, 6, 1, DataModeACTIVE, 66, 8, OpCodeEND, 0>>,
               <<SectionIdData, 2, 1, 2>>,
               <<SectionIdImport, 4, 1, 0, 0, 9>>,
               <<SectionIdExport, 4, 1, 0, 9, 0>>,
               <<SectionIdType, 2, 1, 0>>,
               <<SectionIdCustom, 6, 4, 110, 97, 109, 101>>,
               <<SectionIdCustom, 9, 4, 110, 97, 109, 101, 0, 0, 2, 0>> }
        \cup NameSectionInputs

Prefixes(bytes) == {SubSeq(bytes, 1, n) : n \in 0..Len(bytes)}

\* every input the parsers are run on: the sections above, whole and cut
\* short, at every cursor
ModuleBytes == UNION {Prefixes(bytes) : bytes \in WrittenSections \cup ForeignSections \cup DamagedSections}

ParseInputs ==
    UNION { { [kind |-> "none", origin |-> "module", given |-> <<>>, bytes |-> bytes,
               cursor |-> cursor] : cursor \in 0..MaxCursor \cap 0..Len(bytes) } :
            bytes \in ModuleBytes }
    \cup { [kind |-> "none", origin |-> "segments", given |-> segments,
            bytes |-> WrittenDataSection(segments), cursor |-> 0] :
             segments \in SeqsUpTo(DataSegments, MaxItems) }
    \cup { [kind |-> "none", origin |-> "imports", given |-> imports,
            bytes |-> PreloadedImportSection(imports), cursor |-> 0] :
             imports \in SeqsUpTo(ExampleImports, MaxItems) \ {<<>>} }
    \cup { [kind |-> "none", origin |-> "table", given |-> limits,
            bytes |-> TableSection_serialize(FuncTable(limits), <<>>), cursor |-> 0] :
             limits \in ExampleLimits }

\* parse after a parser has run on its input
Ran(kind, result) ==
    [ kind |-> kind, origin |-> parse.origin, given |-> parse.given,
      bytes |-> parse.bytes, cursor |-> parse.cursor, result |-> result ]

Unparsed == parse.kind = "none"

ParseTypeSection ==
    Unparsed /\ parse' = Ran("Type", TypeSection_parse(parse.bytes, parse.cursor))

ParseImportSection ==
    Unparsed /\ parse' = Ran("Import", ImportSection_parse(parse.bytes, parse.cursor))

ParseFunctionSection ==
    Unparsed /\ parse' = Ran("Function", FunctionSection_parse(parse.bytes, parse.cursor))

ParseTableSection ==
    Unparsed /\ parse' = Ran("Table", TableSection_parse(parse.bytes, parse.cursor))

ParseMemorySection ==
    Unparsed
    /\ parse' = Ran("Memory", BytesSection_parse(SectionIdMemory, parse.bytes, parse.cursor))

ParseGlobalSection ==
    Unparsed
    /\ parse' = Ran("Global", BytesSection_parse(SectionIdGlobal, parse.bytes, parse.cursor))

ParseExportSection ==
    Unparsed /\ parse' = Ran("Export", ExportSection_parse(parse.bytes, parse.cursor))

ParseStartSection ==
    Unparsed
    /\ parse' = Ran("Start", OpaqueSection_parse(SectionIdStart, parse.bytes, parse.cursor))

ParseElementSection ==
    Unparsed /\ parse' = Ran("Element", ElementSection_parse(parse.bytes, parse.cursor))

ParseCodeSection ==
    Unparsed /\ parse' = Ran("Code", CodeSection_parse_bytes(parse.bytes, parse.cursor))

ParseDataSection ==
    Unparsed /\ parse' = Ran("Data", DataSection_parse(parse.bytes, parse.cursor))

ParseNameSection ==
    Unparsed /\ parse' = Ran("Name", NameSection_parse(parse.bytes, parse.cursor))

\* parse_section itself, looking for any one section id
ParseSectionHeader(expected_id) ==
    Unparsed
    /\ parse' = [Ran("parse_section", parse_section(expected_id, parse.bytes, parse.cursor))
                    EXCEPT !.given = expected_id]

otherThanParse == <<types, typeLog, element, elemLog, unit, sect, out, patch, data>>

ParseNext ==
    \/ ParseTypeSection /\ UNCHANGED otherThanParse
    \/ ParseImportSection /\ UNCHANGED otherThanParse
    \/ ParseFunctionSection /\ UNCHANGED otherThanParse
    \/ ParseTableSection /\ UNCHANGED otherThanParse
    \/ ParseMemorySection /\ UNCHANGED otherThanParse
    \/ ParseGlobalSection /\ UNCHANGED otherThanParse
    \/ ParseExportSection /\ UNCHANGED otherThanParse
    \/ ParseStartSection /\ UNCHANGED otherThanParse
    \/ ParseElementSection /\ UNCHANGED otherThanParse
    \/ ParseCodeSection /\ UNCHANGED otherThanParse
    \/ ParseDataSection /\ UNCHANGED otherThanParse
    \/ ParseNameSection /\ UNCHANGED otherThanParse
    \/ \E expected_id \in SectionIds : ParseSectionHeader(expected_id) /\ UNCHANGED otherThanParse

(***************************************************************************)
(* Writing one section by hand: a header (plain or custom), a body         *)
(* appended piece by piece, then the length patched in.                    *)
(***************************************************************************)
MaxAppends == 2        \* pieces of body appended between the header and the patch

\* what the buffer holds before the section is written
EarlierOutput == {<<>>, <<0, 97, 115, 109>>, <<1, 0, 0, 0, 9, 9>>}

\* pieces of body; the long one takes the section length past one LEB128 byte
BodyPieces == {<<7>>, <<128, 255>>, [i \in 1..130 |-> i % 256]}

CustomNames == {NAME, <<>>, <<108, 105, 110, 107, 105, 110, 103>>}

Opened(h, earlier, name, custom) ==
    [ stage |-> "open", buffer |-> h.buffer, size_index |-> h.size_index,
      body_index |-> h.body_index, earlier |-> earlier, name |-> name,
      custom |-> custom, appends |-> 0, before |-> <<>> ]

\* write_section_header on the buffer
HeaderWrite(id) ==
    /\ patch.stage = "empty"
    /\ patch' = Opened(write_section_header(patch.buffer, id), patch.buffer, <<>>, FALSE)

\* write_custom_section_header on the buffer
HeaderWriteCustom(name) ==
    /\ patch.stage = "empty"
    /\ patch' = Opened(write_custom_section_header(patch.buffer, name), patch.buffer,
                       name, TRUE)

\* SerialBuffer::append_slice of a piece of the body
HeaderAppendBody(piece) ==
    /\ patch.stage = "open"
    /\ patch.appends < MaxAppends
    /\ patch' = [patch EXCEPT !.buffer = @ \o piece, !.appends = @ + 1]

\* update_section_size with the indices the header call returned
HeaderUpdateSize ==
    /\ patch.stage = "open"
    /\ patch' = [patch EXCEPT !.stage = "patched", !.before = patch.buffer,
                              !.buffer = update_section_size(patch.buffer, patch)]

otherThanPatch == <<types, typeLog, element, elemLog, unit, sect, out, parse, data>>

HeaderNext ==
    \/ \E id \in SectionIds : HeaderWrite(id) /\ UNCHANGED otherThanPatch
    \/ \E name \in CustomNames : HeaderWriteCustom(name) /\ UNCHANGED otherThanPatch
    \/ \E piece \in BodyPieces : HeaderAppendBody(piece) /\ UNCHANGED otherThanPatch
    \/ HeaderUpdateSize /\ UNCHANGED otherThanPatch

(***************************************************************************)
(* A data section read from a module and then added to.                    *)
(***************************************************************************)
\* the data sections read: written by this code for one or two segments, or
\* left out of a module that goes on with its name section
DataInputs ==
    { [stage |-> "input", given |-> segments, bytes |-> WrittenDataSection(segments)] :
        segments \in SeqsUpTo(DataSegments, MaxItems) \ {<<>>} }
    \cup { [stage |-> "input", given |-> <<>>, bytes |-> <<SectionIdCustom, 1, 0>>] }

\* the input with the result r of DataSection::parse
DataRead(input, r) ==
    [ stage |-> IF r.status = "Ok" THEN "parsed" ELSE "failed",
      given |-> input.given, bytes |-> input.bytes, section |-> r.section,
      parsed_count |-> r.section.count, appended |-> <<>>, indices |-> <<>> ]

\* DataSection::parse on the input
DataParse ==
    /\ data.stage = "input"
    /\ data' = DataRead(data, DataSection_parse(data.bytes, 0))

\* DataSection::append_segment on the parsed section
DataAppendSegment(segment) ==
    /\ data.stage = "parsed"
    /\ Len(data.appended) < MaxItems
    /\ LET r == DataSection_append_segment(data.section, segment)
       IN  data' = [data EXCEPT !.section = r.section,
                                !.appended = Append(@, segment),
                                !.indices = Append(@, r.index)]

otherThanData == <<types, typeLog, element, elemLog, unit, sect, out, parse, patch>>

DataNext ==
    \/ DataParse /\ UNCHANGED otherThanData
    \/ \E segment \in DataSegments : DataAppendSegment(segment) /\ UNCHANGED otherThanData

(***************************************************************************)
(* The preloaded module: exports are added, the code section is trimmed    *)
(* and then written.                                                       *)
(***************************************************************************)
\* CodeSection::serialize of the trimmed code section into an empty buffer
DceSerialize ==
    /\ unit.phase = "trimmed"
    /\ unit' = [ unit EXCEPT !.phase = "serialized",
                             !.written = CodeSection_serialize(unit.code, <<>>) ]

otherThanUnit == <<types, typeLog, element, elemLog, sect, out, parse, patch, data>>

\* function indices a caller may name: the preloaded ones and the first generated one
NameableIndices == PreloadIndices \cup {Len(ImportSignatures) + MaxPreloads}

DceNext ==
    \/ \E index \in NameableIndices : DceExportAppend(index) /\ UNCHANGED otherThanUnit
    \/ \E called \in SeqsUpTo(NameableIndices, 1) :
         DceRemoveDeadPreloads(called) /\ UNCHANGED otherThanUnit
    \/ DceSerialize /\ UNCHANGED otherThanUnit

(***************************************************************************)
(* A memory section made for a requested number of bytes, then written.    *)
(***************************************************************************)
MaxPages == 12         \* requests are taken around 1..MaxPages pages from either end

\* u32 requests as bit patterns: around the page boundaries at the low end
\* and at the high end of the range, and around 2^31
MemorySizes ==
    MemoryRequests
        \cup {k * PAGE_SIZE + d : k \in 1..MaxPages, d \in {-1, 0, 1}}
        \cup {d - k * PAGE_SIZE : k \in 0..MaxPages, d \in {-2, -1}}
        \cup {1 - k * PAGE_SIZE : k \in 1..MaxPages}
        \cup {MinI32, MinI32 + 1, 2 - PAGE_SIZE}

\* MemorySection::new(memory_bytes)
MemoryNew(memory_bytes) ==
    /\ sect.kind = "none"
    /\ sect' = [kind |-> "Memory", value |-> MemorySection_new(memory_bytes),
                memory_bytes |-> memory_bytes]
    /\ out' = out

\* the section made is written behind buffer
MemorySerialize(buffer) == sect.kind = "Memory" /\ SizeSerialize(buffer)

MemoryNext ==
    \/ \E memory_bytes \in MemorySizes : MemoryNew(memory_bytes) /\ UNCHANGED otherThanSect
    \/ \E buffer \in OutputBuffers : MemorySerialize(buffer) /\ UNCHANGED otherThanSect

(***************************************************************************)
(* Constant initialisers: globals are appended and read back by index, and *)
(* the mode of an active data segment is written and read back.            *)
(***************************************************************************)
\* OpCode::skip_bytes for the instructions of an i32 initialiser: i32.const
\* carries one LEB128 immediate, any other opcode here carries none
OpCode_skip_bytes(bytes, cursor) ==
    IF At(bytes, cursor) = OpCodeI32CONST THEN u32_skip_bytes(bytes, cursor + 1)
    ELSE [ok |-> TRUE, cursor |-> cursor + 1]

\* ConstExpr::skip_bytes: instructions are skipped up to and past the end
\* marker; [status, cursor]; indexing past the bytes panics
RECURSIVE ConstExpr_skip_bytes(_, _)
ConstExpr_skip_bytes(bytes, cursor) ==
    IF cursor >= Len(bytes) THEN [status |-> "Panic", cursor |-> cursor]
    ELSE IF At(bytes, cursor) = OpCodeEND THEN [status |-> "Ok", cursor |-> cursor + 1]
    ELSE LET op == OpCode_skip_bytes(bytes, cursor)
         IN  IF ~op.ok THEN [status |-> "Err", cursor |-> cursor]
             ELSE ConstExpr_skip_bytes(bytes, op.cursor)

\* the loop of GlobalSection::parse_u32_at_index over the globals before index
RECURSIVE skip_globals(_, _, _)
skip_globals(bytes, cursor, index) ==
    IF index = 0 THEN [status |-> "Ok", cursor |-> cursor]
    ELSE LET ty == GlobalType_skip_bytes(bytes, cursor)
             init == ConstExpr_skip_bytes(bytes, ty.cursor)
         IN  IF init.status # "Ok" THEN init
             ELSE skip_globals(bytes, init.cursor, index - 1)

\* GlobalSection::parse_u32_at_index: [status, value, cursor]
GlobalSection_parse_u32_at_index(section, index) ==
    LET before == skip_globals(section.bytes, 0, index)
    IN  IF before.status # "Ok"
        THEN [status |-> before.status, value |-> 0, cursor |-> before.cursor]
        ELSE ConstExpr_parse_u32(section.bytes,
                                 GlobalType_skip_bytes(section.bytes, before.cursor).cursor)

\* DataMode::active_at: the u32 offset is kept as the i32 of the same bits
DataMode_active_at(offset) == ActiveMode(offset)

MaxGlobals == 2        \* globals appended to one section

\* i32 initialisers as bit patterns: at the width changes of the signed and
\* of the unsigned LEB128, and at both ends of the range
ConstSamples ==
    {0, 1, 63, 64, 127, 128, 134217727, 134217728, MaxI32,
     -1, -64, -65, -134217728, -134217729, MinI32}

NotRead == [status |-> "none", value |-> 0, cursor |-> 0]

\* GlobalSection::append of an i32 global
ConstAppendGlobal(global) ==
    /\ sect.kind = "Global"
    /\ sect.read = NotRead
    /\ Len(sect.inits) < MaxGlobals
    /\ sect' = [sect EXCEPT !.value = GlobalSection_append(sect.value, global),
                            !.inits = Append(sect.inits, global.init)]
    /\ out' = out

\* GlobalSection::parse_u32_at_index(index) on the section as appended
ConstParseGlobal(index) ==
    /\ sect.kind = "Global"
    /\ sect.read = NotRead
    /\ sect.inits # <<>>
    /\ sect' = [sect EXCEPT !.read = GlobalSection_parse_u32_at_index(sect.value, index),
                            !.index = index]
    /\ out' = out

\* DataMode::active_at(offset) is serialized behind nothing
ConstWriteMode(offset) ==
    /\ sect.kind = "Global"
    /\ sect.read = NotRead
    /\ sect.inits = <<>>
    /\ sect' = [kind |-> "Mode", value |-> DataMode_serialize(DataMode_active_at(offset)),
                inits |-> <<offset>>, index |-> 0, read |-> NotRead,
                mode |-> PassiveMode]
    /\ out' = out

\* DataMode::parse of the bytes written
ConstParseMode ==
    /\ sect.kind = "Mode"
    /\ sect.read = NotRead
    /\ LET mode == DataMode_parse(sect.value, 0)
       IN  sect' = [sect EXCEPT !.read = [status |-> mode.status, value |-> mode.mode.offset,
                                          cursor |-> mode.cursor],
                                !.mode = mode.mode]
    /\ out' = out

ConstNext ==
    \/ \E init \in ConstSamples, is_mutable \in BOOLEAN :
           /\ ConstAppendGlobal([ty |-> [value_type |-> "I32", is_mutable |-> is_mutable],
                                 init |-> init])
           /\ UNCHANGED otherThanSect
    \/ \E index \in 0..(MaxGlobals - 1) : ConstParseGlobal(index) /\ UNCHANGED otherThanSect
    \/ \E offset \in ConstSamples : ConstWriteMode(offset) /\ UNCHANGED otherThanSect
    \/ ConstParseMode /\ UNCHANGED otherThanSect

(***************************************************************************)
(* Specifications: one per component, the other components left as built.  *)
(***************************************************************************)
IdleElement == [segments |-> <<EmptySegment>>]

TypeSpecInit ==
    /\ types = NewTypeSection
    /\ typeLog = NewTypeLog
    /\ element = IdleElement
    /\ elemLog = NewElemLog
    /\ unit = IdleUnit
    /\ sect = IdleSect
    /\ out = IdleOut
    /\ parse = IdleParse
    /\ patch = IdlePatch
    /\ data = IdleData

ElemSpecInit ==
    /\ types = NewTypeSection
    /\ typeLog = NewTypeLog
    /\ element \in ParsedElementSections
    /\ elemLog = NewElemLog
    /\ unit = IdleUnit
    /\ sect = IdleSect
    /\ out = IdleOut
    /\ parse = IdleParse
    /\ patch = IdlePatch
    /\ data = IdleData

DceSpecInit ==
    /\ types = NewTypeSection
    /\ typeLog = NewTypeLog
    /\ element \in PreloadedTables
    /\ elemLog = NewElemLog
    /\ unit \in {LoadedUnit(bodies, element) : bodies \in PreloadedBodies}
    /\ sect = IdleSect
    /\ out = IdleOut
    /\ parse = IdleParse
    /\ patch = IdlePatch
    /\ data = IdleData

SizeSpecInit ==
    /\ types = NewTypeSection
    /\ typeLog = NewTypeLog
    /\ element = IdleElement
    /\ elemLog = NewElemLog
    /\ unit = IdleUnit
    /\ sect \in FreshSections
    /\ out = IdleOut
    /\ parse = IdleParse
    /\ patch = IdlePatch
    /\ data = IdleData

ParseSpecInit ==
    /\ types = NewTypeSection
    /\ typeLog = NewTypeLog
    /\ element = IdleElement
    /\ elemLog = NewElemLog
    /\ unit = IdleUnit
    /\ sect = IdleSect
    /\ out = IdleOut
    /\ parse \in ParseInputs
    /\ patch = IdlePatch
    /\ data = IdleData

HeaderSpecInit ==
    /\ types = NewTypeSection
    /\ typeLog = NewTypeLog
    /\ element = IdleElement
    /\ elemLog = NewElemLog
    /\ unit = IdleUnit
    /\ sect = IdleSect
    /\ out = IdleOut
    /\ parse = IdleParse
    /\ patch \in {[stage |-> "empty", buffer |-> buffer] : buffer \in EarlierOutput}
    /\ data = IdleData

DataSpecInit ==
    /\ types = NewTypeSection
    /\ typeLog = NewTypeLog
    /\ element = IdleElement
    /\ elemLog = NewElemLog
    /\ unit = IdleUnit
    /\ sect = IdleSect
    /\ out = IdleOut
    /\ parse = IdleParse
    /\ patch = IdlePatch
    /\ data \in DataInputs

MemorySpecInit ==
    /\ types = NewTypeSection
    /\ typeLog = NewTypeLog
    /\ element = IdleElement
    /\ elemLog = NewElemLog
    /\ unit = IdleUnit
    /\ sect = IdleSect
    /\ out = IdleOut
    /\ parse = IdleParse
    /\ patch = IdlePatch
    /\ data = IdleData

ConstSpecInit ==
    /\ types = NewTypeSection
    /\ typeLog = NewTypeLog
    /\ element = IdleElement
    /\ elemLog = NewElemLog
    /\ unit = IdleUnit
    /\ sect = [kind |-> "Global", value |-> [count |-> 0, bytes |-> <<>>],
               inits |-> <<>>, index |-> 0, read |-> NotRead]
    /\ out = IdleOut
    /\ parse = IdleParse
    /\ patch = IdlePatch
    /\ data = IdleData

SpecType == TypeSpecInit /\ [][TypeNext]_vars

SpecElem == ElemSpecInit /\ [][ElemNext]_vars

SpecDce == DceSpecInit /\ [][DceNext]_vars

SpecSize == SizeSpecInit /\ [][SizeNext]_vars

SpecParse == ParseSpecInit /\ [][ParseNext]_vars

SpecHeader == HeaderSpecInit /\ [][HeaderNext]_vars

SpecData == DataSpecInit /\ [][DataNext]_vars

SpecMemory == MemorySpecInit /\ [][MemoryNext]_vars

SpecConst == ConstSpecInit /\ [][ConstNext]_vars

(***************************************************************************)
(* Dead-code elimination: what the claims speak of.                        *)
(***************************************************************************)
ImportCount == Len(ImportSignatures)

\* the index the preloaded function named fn had when the module was loaded
IndexOf(fn) == ImportCount + fn - 1

\* the signature index of a function of the loaded module
SignatureOf(f) == At(ImportSignatures \o FunctionSignatures, f)

\* the functions a preloaded function may call, read off the loaded bodies:
\* its direct calls, and for each call_indirect every function in the element
\* table whose signature is the declared one
CallEdges(f) ==
    LET code == unit.original[f - ImportCount + 1].code
    IN  UNION { IF code[k].op = "call" THEN {code[k].arg}
                ELSE {g \in Range(ElementSection_indirect_callees(element)) :
                        SignatureOf(g) = code[k].arg} :
                k \in 1..Len(code) }

RECURSIVE ReachableWithin(_, _)
ReachableWithin(fns, steps) ==
    IF steps = 0 THEN fns
    ELSE ReachableWithin(
             fns \cup ((UNION {CallEdges(f) : f \in fns}) \cap PreloadIndices),
             steps - 1)

\* the root set: exported functions, functions the generated code calls, and
\* every function in an element segment
RootSet ==
    Range(unit.exported_fns) \cup Range(unit.called_preload_fns)
        \cup Range(ElementSection_indirect_callees(element))

\* the preloaded functions reachable from the root set
LiveSet == ReachableWithin(RootSet \cap PreloadIndices, MaxPreloads)

\* the functions whose bodies the preloaded blob holds, in blob order
BlobFns == [k \in 1..Len(unit.code.preloaded_bytes) |-> unit.code.preloaded_bytes[k].fn]

Trimmed == unit.phase = "trimmed"

\* C1: after remove_dead_preloads every preloaded function reachable from the
\* root set (exports, functions called by generated code, element-table
\* functions) through call and signature-matched call_indirect edges still has
\* its body in the preloaded blob.
C1_LiveFunctionsSurvive ==
    Trimmed => \A f \in LiveSet : \E k \in 1..Len(BlobFns) : IndexOf(BlobFns[k]) = f

\* a function that is live only through a call_indirect edge or a call chain of
\* length two survives next to a dead one
C1_Witness ==
    /\ Trimmed
    /\ LiveSet # PreloadIndices
    /\ \E f \in LiveSet \ RootSet :
         /\ \E k \in 1..Len(BlobFns) : IndexOf(BlobFns[k]) = f
         /\ \A r \in RootSet \cap PreloadIndices : f \notin CallEdges(r)

\* C2: after remove_dead_preloads the blob holds exactly the bodies of the
\* functions reachable from the root set, each once, in their original order;
\* every unreachable function is gone.
C2_BlobIsExactlyLive ==
    Trimmed =>
        /\ {IndexOf(BlobFns[k]) : k \in 1..Len(BlobFns)} = LiveSet
        /\ \A j, k \in 1..Len(BlobFns) : j < k => BlobFns[j] < BlobFns[k]
        /\ \A k \in 1..Len(BlobFns) :
             [i \in 1..Len(unit.code.preloaded_bytes[k].code) |->
                 unit.code.preloaded_bytes[k].code[i].op]
             = [i \in 1..Len(unit.original[BlobFns[k]].code) |->
                 unit.original[BlobFns[k]].code[i].op]

\* functions A, B, C, D: A calls B, C is unreachable, D is only in the element
\* table; trimmed with the export root {A} the blob holds A, B, D
C2_Witness ==
    /\ Trimmed
    /\ MaxPreloads >= 4
    /\ unit.original[1].code = <<[op |-> "call", arg |-> IndexOf(2)]>>
    /\ \A p \in 2..MaxPreloads : unit.original[p].code = <<>>
    /\ unit.exported_fns = <<IndexOf(1)>>
    /\ unit.called_preload_fns = <<>>
    /\ ElementSection_indirect_callees(element) = <<IndexOf(4)>>
    /\ BlobFns = <<1, 2, 4>>

\* what a function index denotes in the module as loaded
DenotesBefore(i) ==
    IF i < ImportCount THEN <<"import", i>>
    ELSE IF i < ImportCount + Len(unit.original)
    THEN <<"preloaded", unit.original[i - ImportCount + 1].fn>>
    ELSE <<"generated", i - ImportCount - Len(unit.original)>>

\* what a function index denotes in the module as it is now: the imports, then
\* the bodies of the preloaded blob, then the generated functions
DenotesNow(i) ==
    IF i < ImportCount THEN <<"import", i>>
    ELSE IF i < ImportCount + Len(unit.code.preloaded_bytes)
    THEN <<"preloaded", unit.code.preloaded_bytes[i - ImportCount + 1].fn>>
    ELSE <<"generated", i - ImportCount - Len(unit.code.preloaded_bytes)>>

\* the function an index denoted when loaded has not been removed
Survives(i) ==
    DenotesBefore(i)[1] = "preloaded" =>
        \E k \in 1..Len(BlobFns) : BlobFns[k] = DenotesBefore(i)[2]

ExportsConsistent ==
    \A e \in Range(unit.export.exports) :
        Survives(e.index) => DenotesNow(e.index) = DenotesBefore(e.index)

ElementsConsistent ==
    \A f \in Range(ElementSection_indirect_callees(element)) :
        Survives(f) => DenotesNow(f) = DenotesBefore(f)

NamesConsistent ==
    \A n \in unit.names :
        Survives(n.index) => DenotesNow(n.index) = <<"preloaded", n.name>>

CallSitesConsistent ==
    \A k \in 1..Len(unit.code.preloaded_bytes) :
        LET body == unit.code.preloaded_bytes[k]
            loaded == unit.original[body.fn]
        IN  /\ Len(body.code) = Len(loaded.code)
            /\ \A i \in 1..Len(body.code) :
                 body.code[i].op = "call" =>
                     /\ Survives(loaded.code[i].arg)
                     /\ DenotesNow(body.code[i].arg) = DenotesBefore(loaded.code[i].arg)

\* C3: after dead-code elimination every function index held by a surviving
\* export, an element-table entry, a name-section entry or a call site of
\* surviving preloaded code denotes a function that is still present, the one
\* it denoted before trimming.
C3_NoDanglingReference ==
    Trimmed =>
        ExportsConsistent /\ ElementsConsistent /\ NamesConsistent /\ CallSitesConsistent

\* the call sites inside the surviving code are renumbered; the sections
\* outside the code section are where the references go wrong
C3_CallSitesRenumbered == Trimmed => CallSitesConsistent

(***************************************************************************)
(* Type section: what the claims speak of.                                 *)
(***************************************************************************)
Inserted == typeLog.op = "insert"

\* the signature of the last insert had been inserted before
WasStored == typeLog.known

\* C4: inserting a signature structurally identical to one inserted or parsed
\* earlier returns the index that signature was given first, wherever it sits in
\* the table, and leaves bytes and offsets unchanged.
C4_InsertDeduplicates ==
    (Inserted /\ WasStored) =>
        /\ \A g \in Given(typeLog, typeLog.signature) : typeLog.index = g.index
        /\ types = typeLog.before

\* a signature is inserted again, after the section was serialized and parsed
\* back, and is found in the middle of the table
C4_Witness ==
    /\ Inserted /\ WasStored
    /\ typeLog.reloaded
    /\ typeLog.index = 1
    /\ Len(types.offsets) = 2

\* C5: inserting a signature that differs from every stored one returns the
\* number of signatures stored before the call and appends exactly that
\* signature's encoding; two different signatures never share an index.
C5_InsertNeverConflates ==
    /\ (Inserted /\ ~WasStored) =>
          /\ typeLog.index = Len(typeLog.before.offsets)
          /\ types.bytes = typeLog.before.bytes \o Signature_serialize(typeLog.signature)
          /\ types.offsets = Append(typeLog.before.offsets, Len(typeLog.before.bytes))
    /\ \A g, h \in typeLog.given : g.index = h.index => g.signature = h.signature

\* a signature that differs from a stored one only in its return type, and one
\* that extends a stored parameter list, get indices of their own
C5_Witness ==
    /\ Inserted /\ ~WasStored
    /\ typeLog.index = 2
    /\ \E g \in typeLog.given :
         /\ g.signature.param_types = typeLog.signature.param_types
         /\ g.signature.ret_type # typeLog.signature.ret_type
    /\ \E g \in typeLog.given :
         /\ Len(g.signature.param_types) < Len(typeLog.signature.param_types)
         /\ g.signature.param_types
              = SubSeq(typeLog.signature.param_types, 1, Len(g.signature.param_types))
         /\ g.signature.ret_type = typeLog.signature.ret_type

Reparsed == typeLog.op = "parse"

\* C6 as stated: for a section built by any finite sequence of inserts,
\* serializing and parsing from cursor 0 succeeds and yields the same offsets
\* and bytes.
C6_RoundTrip ==
    Reparsed => typeLog.status = "Ok" /\ types = typeLog.before

\* C6 as amended: the same, for a section holding at least one signature; an
\* empty section serializes to no bytes at all, and parsing no bytes is an error.
C6_RoundTripNonEmpty ==
    Reparsed =>
        IF typeLog.before.offsets = <<>>
        THEN typeLog.status = "Err" /\ TypeSection_serialize(typeLog.before, <<>>) = <<>>
        ELSE typeLog.status = "Ok" /\ types = typeLog.before

\* the signatures ()->(), (I32,I64,F32,F64)->(), (I32,I32,I32)->I32 come back
\* as three offsets in the same order
C6_Witness ==
    /\ Reparsed
    /\ typeLog.status = "Ok"
    /\ types.offsets = <<0, 3, 10>>
    /\ types.bytes = Signature_serialize([param_types |-> <<>>, ret_type |-> "None"])
          \o Signature_serialize(
                 [param_types |-> <<"I32", "I64", "F32", "F64">>, ret_type |-> "None"])
          \o Signature_serialize(
                 [param_types |-> <<"I32", "I32", "I32">>, ret_type |-> "I32"])

(***************************************************************************)
(* Element section: what the claims speak of.                              *)
(***************************************************************************)
Got == elemLog.op = "get"

\* the table slots a section occupies, as (slot, function) pairs
OccupiedSlots(section) ==
    UNION { { <<I32Add(section.segments[n].offset, k - 1),
                section.segments[n].fn_indices[k]>> :
              k \in 1..Len(section.segments[n].fn_indices) } :
            n \in 1..Len(section.segments) }

\* the 0-based place of the first f in a sequence that holds it
FirstPlace(xs, f) == CHOOSE k \in 0..(Len(xs) - 1) :
                        /\ At(xs, k) = f
                        /\ \A j \in 0..(k - 1) : At(xs, j) # f

\* C7: get_fn_table_index(f) returns the index it returned for f before, whatever
\* other calls came in between; a call for a function already in the last
\* segment leaves the section as it was; the index is the last segment's
\* offset plus the place of f in that segment (an i32 sum).
C7_GetFnTableIndexIdempotent ==
    Got =>
        /\ \A g \in elemLog.given : g.fn_index = elemLog.fn_index => g.index = elemLog.index
        /\ elemLog.fn_index \in Range(Last(elemLog.before.segments).fn_indices)
              => element = elemLog.before
        /\ elemLog.index
              = I32Add(Last(element.segments).offset,
                       FirstPlace(Last(element.segments).fn_indices, elemLog.fn_index))

\* f is asked for again after another function got a later slot in between
C7_Witness ==
    /\ Got /\ elemLog.known
    /\ element = elemLog.before
    /\ \E g \in elemLog.given :
         /\ g.fn_index # elemLog.fn_index
         /\ g.index > elemLog.index
         /\ g.fn_index \notin Range(ElementSection_indirect_callees(
                                       [segments |-> <<Head(element.segments)>>]))
            \/ Len(element.segments) = 1

FreshFn == elemLog.fn_index \notin Range(ElementSection_indirect_callees(elemLog.before))

\* C8 as stated: for any element section and f not yet in the table, the index
\* returned is a slot no function occupied, equal to max_table_index() just
\* before the call.
C8_FreshSlotIsMaxTableIndex ==
    (Got /\ FreshFn) =>
        /\ elemLog.index = elemLog.max_before
        /\ \A slot \in OccupiedSlots(elemLog.before) : slot[1] # elemLog.index

\* no segment's offset + length leaves the i32 range, and the last segment
\* reaches at least as far as every other one, and not below slot 0
LastSegmentEndsHighest(section) ==
    LET last == Last(section.segments)
    IN  /\ \A n \in 1..Len(section.segments) :
             ~I32AddOverflows(section.segments[n].offset,
                              Len(section.segments[n].fn_indices))
        /\ last.offset + Len(last.fn_indices) >= 0
        /\ \A n \in 1..Len(section.segments) :
             I32Add(section.segments[n].offset, Len(section.segments[n].fn_indices))
                 <= last.offset + Len(last.fn_indices)

\* C8 as amended: the same, for a section whose last segment ends highest.
C8_FreshSlotIsMaxWhenLastEndsHighest ==
    (Got /\ FreshFn /\ LastSegmentEndsHighest(elemLog.before)) =>
        /\ elemLog.index = elemLog.max_before
        /\ \A slot \in OccupiedSlots(elemLog.before) : slot[1] # elemLog.index

\* a fresh function gets the slot after two occupied ones of a section with
\* two segments
C8_Witness ==
    /\ Got /\ FreshFn /\ LastSegmentEndsHighest(elemLog.before)
    /\ Len(element.segments) = 2
    /\ Cardinality(OccupiedSlots(elemLog.before)) >= 2
    /\ elemLog.index = elemLog.max_before
    /\ elemLog.index >= 2

AskedMax == elemLog.op = "max"

\* C9 as stated: max_table_index returns the highest occupied table slot, the
\* largest segment_offset + position over every stored function index.
C9_MaxTableIndexIsHighestOccupied ==
    (AskedMax /\ OccupiedSlots(element) # {}) =>
        /\ \E slot \in OccupiedSlots(element) : slot[1] = elemLog.index
        /\ \A slot \in OccupiedSlots(element) : slot[1] <= elemLog.index

NoSegmentOverflows(section) ==
    \A n \in 1..Len(section.segments) :
        ~I32AddOverflows(section.segments[n].offset, Len(section.segments[n].fn_indices))

\* C9 as amended: max_table_index returns the largest segment_offset + number of
\* function indices over all segments, or 0 if none is positive: the slot after
\* the highest occupied one when the segment reaching furthest holds a function.
C9_MaxTableIndexIsTableEnd ==
    (AskedMax /\ NoSegmentOverflows(element)) =>
        LET ends == { element.segments[n].offset + Len(element.segments[n].fn_indices) :
                        n \in 1..Len(element.segments) }
        IN  /\ elemLog.index \in ends \cup {0}
            /\ elemLog.index >= 0
            /\ \A e \in ends : e <= elemLog.index
            /\ \A n \in 1..Len(element.segments) :
                 ( /\ element.segments[n].fn_indices # <<>>
                   /\ element.segments[n].offset + Len(element.segments[n].fn_indices)
                        = elemLog.index )
                 => /\ \A slot \in OccupiedSlots(element) : slot[1] < elemLog.index
                    /\ \E slot \in OccupiedSlots(element) : slot[1] = elemLog.index - 1

\* two segments hold functions, the first one reaches furthest
C9_Witness ==
    /\ AskedMax /\ NoSegmentOverflows(element)
    /\ Len(element.segments) = 2
    /\ element.segments[1].fn_indices # <<>>
    /\ Len(element.segments[2].fn_indices) >= 2
    /\ elemLog.index = element.segments[1].offset + Len(element.segments[1].fn_indices)
    /\ elemLog.index > element.segments[2].offset + Len(element.segments[2].fn_indices)

(***************************************************************************)
(* Sections: what the claims speak of.                                     *)
(***************************************************************************)
Serialized == out.op = "serialize"

\* C10 as stated: for every section kind and every section value, size() is at
\* least the number of bytes serialize appends to the output buffer.
C10_SizeBoundsSerialization ==
    Serialized => out.size >= out.appended

\* the kinds whose size() counts the whole section header and every stored byte
FullyCountedKinds == {"Type", "Function", "Memory", "Global", "Code", "Data"}

\* C10 for the sections whose size() is MAX_SIZE_SECTION_HEADER plus the stored
\* bytes: there size() is at least what serialize appends.
C10_SizeBoundsFullyCountedKinds ==
    (Serialized /\ sect.kind \in FullyCountedKinds) => out.size >= out.appended

\* an export section of one export is serialized into more bytes than size()
C10_Witness ==
    /\ Serialized /\ sect.kind = "Export"
    /\ Len(sect.value.exports) = 1
    /\ out.size < out.appended

(***************************************************************************)
(* Parsing: what the claims speak of.                                      *)
(***************************************************************************)
HasParsed(kind) == parse.kind = kind

ParserKinds ==
    { "Type", "Import", "Function", "Table", "Memory", "Global", "Export", "Element",
      "Code", "Data", "Start", "Name" }

\* C11: whatever the bytes and the cursor, a section parser returns Ok or a
\* parse error; it aborts only on an unrecognised import or export type tag,
\* never by indexing or slicing outside the input or unwrapping an error.
C11_ParsersNeverPanic ==
    parse.kind \in ParserKinds => parse.result.status \in {"Ok", "Err", "Abort"}

\* the code section parser has run on an input that ends at the cursor
C11_Witness ==
    /\ HasParsed("Code") /\ parse.cursor = Len(parse.bytes)
    /\ parse.result.status = "Panic"

SectionIdOf(kind) ==
    CASE kind = "Type" -> SectionIdType [] kind = "Import" -> SectionIdImport
      [] kind = "Function" -> SectionIdFunction [] kind = "Table" -> SectionIdTable
      [] kind = "Memory" -> SectionIdMemory [] kind = "Global" -> SectionIdGlobal
      [] kind = "Export" -> SectionIdExport [] kind = "Start" -> SectionIdStart
      [] kind = "Element" -> SectionIdElement [] kind = "Code" -> SectionIdCode
      [] kind = "Data" -> SectionIdData [] OTHER -> SectionIdCustom

\* the sections a module may leave out: those read through parse_section,
\* and the opaque ones
OptionalKinds ==
    { "Type", "Import", "Function", "Table", "Memory", "Global", "Export", "Element",
      "Data", "Start" }

\* each optional section as it is constructed empty
FreshlyConstructed(kind) ==
    CASE kind = "Type" -> [bytes |-> <<>>, offsets |-> <<>>]
      [] kind = "Import" -> [count |-> 0, fn_signatures |-> <<>>, bytes |-> <<>>]
      [] kind = "Function" -> [signatures |-> <<>>, bytes |-> <<>>]
      [] kind = "Table" ->
           [function_table |->
              [ref_type |-> RefTypeFunc,
               limits |-> [variant |-> "MinMax", min |-> 0, max |-> 0]]]
      [] kind = "Memory" -> [count |-> 0, bytes |-> <<>>]
      [] kind = "Global" -> [count |-> 0, bytes |-> <<>>]
      [] kind = "Export" -> [exports |-> <<>>]
      [] kind = "Data" -> [end_addr |-> 0, count |-> 0, bytes |-> <<>>]
      [] OTHER -> [bytes |-> <<>>]

\* the parser returned the empty section and left the cursor where it was
ParsedAsAbsent ==
    /\ parse.result.status = "Ok"
    /\ parse.result.cursor = parse.cursor
    /\ IF parse.kind = "Element"
       THEN /\ Len(parse.result.section.segments) = 1
            /\ parse.result.section.segments[1].fn_indices = <<>>
       ELSE parse.result.section = FreshlyConstructed(parse.kind)

\* the input holds another section, not the parser's own, at the cursor
OtherSectionAtCursor ==
    /\ parse.cursor < Len(parse.bytes)
    /\ At(parse.bytes, parse.cursor) # SectionIdOf(parse.kind)

\* C12 as stated: wherever an optional section is omitted, be it before
\* another section or at the end of the module, its parser succeeds with
\* the freshly constructed empty section and leaves the cursor in place.
C12_AbsentSectionParsesAsEmpty ==
    parse.kind \in OptionalKinds
        /\ (OtherSectionAtCursor \/ parse.cursor = Len(parse.bytes))
      => ParsedAsAbsent

\* C12, amended: an optional section omitted before another section of the
\* module parses as the freshly constructed empty section, with the cursor
\* left in place.
C12_AbsentBeforeAnotherSectionParsesAsEmpty ==
    parse.kind \in OptionalKinds /\ OtherSectionAtCursor => ParsedAsAbsent

\* the table parser has run where the module holds another section
C12_Witness ==
    /\ HasParsed("Table") /\ OtherSectionAtCursor /\ Len(parse.bytes) > 3
    /\ parse.result.section.function_table.limits = [variant |-> "MinMax", min |-> 0, max |-> 0]

\* the header of the table section the table parser was run on
TableHeader == parse_section(SectionIdTable, parse.bytes, parse.cursor)

\* the table parser has run on a table section whose header could be read
ParsedTableSection ==
    /\ HasParsed("Table")
    /\ parse.cursor < Len(parse.bytes)
    /\ At(parse.bytes, parse.cursor) = SectionIdTable
    /\ TableHeader.status = "Ok"

\* the first table of the section has a reference type, and it is funcref
FirstTableIsFuncref ==
    TableHeader.start < Len(parse.bytes) /\ At(parse.bytes, TableHeader.start) = RefTypeFunc

FirstTableIsNotFuncref ==
    TableHeader.start < Len(parse.bytes) /\ At(parse.bytes, TableHeader.start) # RefTypeFunc

\* C13: a table section of more than one table is rejected with "Multiple
\* tables are not supported", one table that is not funcref with "Only
\* funcref tables are supported"; only no table or a single funcref table
\* parses Ok.
C13_UnsupportedTablesRejected ==
    ParsedTableSection =>
        /\ TableHeader.count \notin {0, 1} =>
              /\ parse.result.status = "Err"
              /\ parse.result.message = "Multiple tables are not supported"
        /\ TableHeader.count = 1 /\ FirstTableIsNotFuncref =>
              /\ parse.result.status = "Err"
              /\ parse.result.message = "Only funcref tables are supported"
        /\ parse.result.status = "Ok" =>
              \/ TableHeader.count = 0
              \/ TableHeader.count = 1 /\ FirstTableIsFuncref

\* a section of one table that is not funcref has been rejected
C13_Witness ==
    /\ ParsedTableSection /\ TableHeader.count = 1 /\ FirstTableIsNotFuncref
    /\ parse.result.message = "Only funcref tables are supported"

\* a section of two tables has been rejected
C13_WitnessMultiple ==
    /\ ParsedTableSection /\ TableHeader.count = 2
    /\ parse.result.message = "Multiple tables are not supported"

(***************************************************************************)
(* Code section output: what the claims speak of.                          *)
(***************************************************************************)
CodeSerialized == sect.kind = "Code" /\ out.op \in {"serialize", "serialize_with_relocs"}

\* what was written behind the section header, the id and the padded size
CodeBodyWritten == Slice(out.written, 1 + MAX_SIZE_ENCODED_U32, Len(out.written))

\* the function count at the start of the written section body
CountWritten == parse_u32(CodeBodyWritten, 0)

\* the number of size-prefixed function bodies in bytes from the cursor on,
\* -1 if they do not end where bytes ends
RECURSIVE BodiesIn(_, _, _)
BodiesIn(bytes, cursor, n) ==
    IF cursor = Len(bytes) THEN n
    ELSE LET size == parse_u32(bytes, cursor)
         IN  IF ~size.ok \/ size.value < 0 \/ size.cursor + size.value > Len(bytes) THEN -1
             ELSE BodiesIn(bytes, size.cursor + size.value, n + 1)

\* C14: each serialization of a code section writes, behind the header, the
\* count preloaded_count + number of code builders, then the preloaded
\* bytes, then the new bodies in builder order; the bodies written are as
\* many as the count says.
C14_CodeSerializationLayout ==
    CodeSerialized =>
        /\ CodeBodyWritten =
              encode_u32(I32Add(sect.value.preloaded_count, Len(sect.value.code_builders)))
                  \o BlobBytes(sect.value.preloaded_bytes)
                  \o Flatten(sect.value.code_builders)
        /\ CountWritten.ok
        /\ BodiesIn(CodeBodyWritten, CountWritten.cursor, 0) = CountWritten.value

\* a code section with a preloaded function and a code builder has been
\* serialized with relocations, and fewer bodies were written than counted
C14_Witness ==
    /\ sect.kind = "Code" /\ out.op = "serialize_with_relocs"
    /\ sect.value.preloaded_count = 1 /\ Len(sect.value.code_builders) = 1
    /\ CountWritten.value = 2
    /\ BodiesIn(CodeBodyWritten, CountWritten.cursor, 0) = 1

\* C14 for Serialize::serialize alone
C14_SerializeLayout ==
    (CodeSerialized /\ out.op = "serialize") =>
        /\ CodeBodyWritten =
              encode_u32(I32Add(sect.value.preloaded_count, Len(sect.value.code_builders)))
                  \o BlobBytes(sect.value.preloaded_bytes)
                  \o Flatten(sect.value.code_builders)
        /\ BodiesIn(CodeBodyWritten, CountWritten.cursor, 0) = CountWritten.value

(***************************************************************************)
(* Data and import sections read back: what the claims speak of.           *)
(***************************************************************************)
\* a data section written by this code from the segments in parse.given has
\* been parsed (without segments nothing is written)
ParsedWrittenData == HasParsed("Data") /\ parse.origin = "segments" /\ parse.given # <<>>

\* a data section without segments has been parsed
ParsedDataWithoutSegments ==
    HasParsed("Data") /\ parse.bytes = <<SectionIdData, 1, 0>> /\ parse.cursor = 0

\* a < b for two u32 held as i32 bit patterns
U32Less(a, b) == IF (a < 0) = (b < 0) THEN a < b ELSE b < 0

\* the greatest offset, as an unsigned number, of the active segments; 0
\* when there are none
RECURSIVE MaxActiveOffset(_)
MaxActiveOffset(segments) ==
    IF segments = <<>> THEN 0
    ELSE LET rest == MaxActiveOffset(Tail(segments))
             mode == Head(segments).mode
         IN  IF mode.variant = "Active" /\ U32Less(rest, mode.offset) THEN mode.offset
             ELSE rest

AllActive(segments) == \A i \in 1..Len(segments) : segments[i].mode.variant = "Active"

Reversed(segments) == [i \in 1..Len(segments) |-> segments[Len(segments) + 1 - i]]

\* C15: parsing a data section of active segments succeeds with end_addr the
\* greatest of their offsets as 32-bit unsigned numbers (0 when there are
\* none), whatever the order of the segments.
C15_EndAddrIsMaxActiveOffset ==
    /\ (ParsedWrittenData /\ AllActive(parse.given)) =>
          /\ parse.result.status = "Ok"
          /\ parse.result.section.end_addr = MaxActiveOffset(parse.given)
          /\ DataSection_parse(WrittenDataSection(Reversed(parse.given)), 0).section.end_addr
                = parse.result.section.end_addr
    /\ ParsedDataWithoutSegments =>
          parse.result.status = "Ok" /\ parse.result.section.end_addr = 0

\* a section with an active segment at offset 2^32 - 1 has been parsed, and
\* end_addr is 127
C15_Witness ==
    /\ ParsedWrittenData /\ AllActive(parse.given) /\ Len(parse.given) = 1
    /\ parse.given[1].mode.offset = -1
    /\ parse.result.status = "Ok"
    /\ parse.result.section.end_addr = 127

\* C15 for offsets below 2^31
C15_EndAddrIsMaxOfSmallOffsets ==
    (ParsedWrittenData /\ AllActive(parse.given)
        /\ \A i \in 1..Len(parse.given) : parse.given[i].mode.offset >= 0) =>
        /\ parse.result.status = "Ok"
        /\ parse.result.section.end_addr = MaxActiveOffset(parse.given)

SomePassive(segments) == \E i \in 1..Len(segments) : segments[i].mode.variant = "Passive"

ActiveOnly(segments) == SelectSeq(segments, LAMBDA segment : segment.mode.variant = "Active")

\* end_addr of the section that holds the active segments alone
EndAddrWithoutPassive ==
    IF ActiveOnly(parse.given) = <<>> THEN 0
    ELSE DataSection_parse(WrittenDataSection(ActiveOnly(parse.given)), 0).section.end_addr

\* C16: a data section with passive segments, written by append_segment and
\* serialize, parses Ok, each passive segment is read as Passive, and
\* end_addr is what it is with the passive segments removed.
C16_PassiveSegmentsIgnored ==
    (ParsedWrittenData /\ SomePassive(parse.given)) =>
        /\ parse.result.status = "Ok"
        /\ Len(parse.result.modes) = Len(parse.given)
        /\ \A i \in 1..Len(parse.given) :
              parse.given[i].mode.variant = "Passive"
                  => parse.result.modes[i].variant = "Passive"
        /\ parse.result.section.end_addr = EndAddrWithoutPassive

\* a section of one passive segment has been parsed, and the parser failed
C16_Witness ==
    /\ ParsedWrittenData /\ Len(parse.given) = 1
    /\ parse.given[1].mode.variant = "Passive"
    /\ parse.result.status = "Err"

\* an import section of a preloaded module, holding the imports in
\* parse.given, has been parsed
ParsedImports == HasParsed("Import") /\ parse.origin = "imports"

FunctionImports(imports) ==
    SelectSeq(imports, LAMBDA import : import.description.kind = "Func")

SignatureIndices(imports) ==
    [i \in 1..Len(imports) |-> imports[i].description.signature_index]

\* what ImportSection::serialize writes behind the section header
ImportBodyWritten(section) ==
    LET written == ImportSection_serialize(section, <<>>)
    IN  Slice(written, 1 + MAX_SIZE_ENCODED_U32, Len(written))

\* C17: of a well-formed import section with function, table, memory and
\* global imports mixed, the parser keeps the function imports alone: count
\* and fn_signatures.len() are their number, fn_signatures their signature
\* indices in order, bytes their encodings one after another; serialization
\* writes that count and then those bytes.
C17_OnlyFunctionImportsKept ==
    ParsedImports =>
        LET kept == FunctionImports(parse.given)
            section == parse.result.section
        IN  /\ parse.result.status = "Ok"
            /\ section.count = Len(kept)
            /\ Len(section.fn_signatures) = Len(kept)
            /\ section.fn_signatures = SignatureIndices(kept)
            /\ section.bytes = serialize_imports(kept)
            /\ kept # <<>> =>
                  ImportBodyWritten(section) = encode_u32(Len(kept)) \o serialize_imports(kept)

\* a section of a memory import followed by a function import has been parsed
C17_Witness ==
    /\ ParsedImports /\ Len(parse.given) = 2
    /\ parse.given[1].description.kind = "Mem"
    /\ parse.given[2].description.kind = "Func"
    /\ parse.result.section.count = 1

(***************************************************************************)
(* Name section: what the claims speak of.                                 *)
(***************************************************************************)
\* the entries encoded in the bytes of a name section, as <<name, index>>
RECURSIVE EncodedNames(_, _)
EncodedNames(bytes, cursor) ==
    IF cursor >= Len(bytes) THEN <<>>
    ELSE LET index == parse_u32(bytes, cursor)
             name == Str_parse(bytes, index.cursor)
         IN  IF ~index.ok \/ ~name.ok THEN <<>>
             ELSE <<<<name.value, index.value>>>> \o EncodedNames(bytes, name.cursor)

NamesAppended == sect.kind = "Name" /\ out.items > 0

\* C18: after any appends to the name section, also of a name that is
\* already there, the bytes encode as many entries as the map holds (the
\* count that serialization writes), and every encoded entry carries the
\* index the map gives its name.
C18_NameBytesMatchMap ==
    NamesAppended =>
        LET entries == EncodedNames(sect.value.bytes, 0)
        IN  /\ Len(entries) = Cardinality(sect.value.functions)
            /\ \A i \in 1..Len(entries) : entries[i] \in sect.value.functions

\* one name has been appended twice with two indices: two entries are
\* encoded, the map holds one
C18_Witness ==
    /\ NamesAppended /\ out.items = 2
    /\ Len(EncodedNames(sect.value.bytes, 0)) = 2
    /\ Cardinality(sect.value.functions) = 1
    /\ EncodedNames(sect.value.bytes, 0)[1] \notin sect.value.functions

\* C18 as long as no name is appended twice
C18_NameBytesMatchMapOfDistinctNames ==
    LET entries == EncodedNames(sect.value.bytes, 0)
    IN  (NamesAppended
           /\ \A i, j \in 1..Len(entries) : entries[i][1] = entries[j][1] => i = j) =>
          /\ Len(entries) = Cardinality(sect.value.functions)
          /\ \A i \in 1..Len(entries) : entries[i] \in sect.value.functions

(***************************************************************************)
(* Dead-code elimination: the order of the trace.                          *)
(***************************************************************************)
\* every order in which the preloaded functions can be ranked
TraversalOrders == Permutations(PreloadIndices)

\* the roots remove_dead_preloads was given, among the preloaded functions
TraceRoots ==
    Preloaded(unit.code.dead_code_metadata,
              Range(unit.exported_fns) \cup Range(unit.called_preload_fns)
                  \cup unit.code.dead_code_metadata.indirect_callees)

\* the functions whose bodies are in the blob
Survivors == {IndexOf(BlobFns[k]) : k \in 1..Len(BlobFns)}

InputBodyStart == parse_u32(sect.module_bytes, 1).cursor

InputFirstBody == parse_u32(sect.module_bytes, InputBodyStart).cursor

\* a code section with preloaded functions has been written by serialize
PreloadsSerialized ==
    /\ sect.kind = "Code" /\ out.op = "serialize"
    /\ sect.value.preloaded_bytes # <<>>

\* the preloaded bytes lie in the written section body at this distance from
\* its start
PreloadsWrittenAt(distance) ==
    Slice(CodeBodyWritten, distance,
          Max(distance, Len(CodeBodyWritten) - Len(Flatten(sect.value.code_builders))))
        = BlobBytes(sect.value.preloaded_bytes)

\* C20 as stated: in the serialized output the first preloaded function
\* body lies preloaded_reloc_offset bytes behind the start of the section
\* body, whatever the width of the count field and however many code
\* builders were added.
C20_RelocOffsetLocatesPreloadsInOutput ==
    PreloadsSerialized => PreloadsWrittenAt(sect.value.preloaded_reloc_offset)

\* C20, amended: preloaded_reloc_offset is the distance from the body start
\* to the first function body in the module that was parsed, the width of
\* its count field, and stays so when code builders are added; in the
\* serialized output the preloaded bytes lie behind the newly encoded count.
C20_RelocOffsetLocatesPreloadsInInput ==
    /\ sect.kind = "Code" =>
          sect.value.preloaded_reloc_offset = InputFirstBody - InputBodyStart
    /\ PreloadsSerialized =>
          PreloadsWrittenAt(Len(encode_u32(I32Add(sect.value.preloaded_count,
                                                  Len(sect.value.code_builders)))))

\* a section parsed from a module with a count field of five bytes has got a
\* code builder and been serialized: the preloaded bytes lie one byte behind
\* the body start
C20_Witness ==
    /\ PreloadsSerialized
    /\ Len(sect.value.code_builders) = 1
    /\ sect.value.preloaded_reloc_offset = MAX_SIZE_ENCODED_U32
    /\ PreloadsWrittenAt(1)

(***************************************************************************)
(* Patching a section length in place.                                     *)
(***************************************************************************)
Patched == patch.stage = "patched"

\* the five bytes reserved for the length
Placeholder == patch.size_index .. patch.size_index + MAX_SIZE_ENCODED_U32 - 1

LengthWritten == parse_u32(patch.buffer, patch.size_index)

\* C21: update_section_size after a header and any body leaves the buffer
\* length and every byte outside the five reserved bytes as they were, and
\* the reserved bytes decode to (buffer size at patch time - body start);
\* the body of a custom section starts with its length-prefixed name.
C21_PatchMovesNoBytes ==
    Patched =>
        /\ Len(patch.buffer) = Len(patch.before)
        /\ \A i \in 0..(Len(patch.buffer) - 1) :
               i \notin Placeholder => At(patch.buffer, i) = At(patch.before, i)
        /\ patch.body_index = patch.size_index + MAX_SIZE_ENCODED_U32
        /\ LengthWritten.ok
        /\ LengthWritten.cursor = patch.body_index
        /\ LengthWritten.value = Len(patch.before) - patch.body_index
        /\ patch.custom =>
               /\ Slice(patch.buffer, patch.body_index,
                        patch.body_index + Len(serialize_vec_u8(patch.name)))
                      = serialize_vec_u8(patch.name)
               /\ LengthWritten.value >= Len(serialize_vec_u8(patch.name))

\* a custom section with a name and a body long enough for a two-byte length
C21_Witness ==
    /\ Patched
    /\ patch.custom
    /\ patch.name = NAME
    /\ patch.earlier # <<>>
    /\ LengthWritten.value > 127
    /\ Slice(patch.buffer, 0, Len(patch.earlier)) = patch.earlier

(***************************************************************************)
(* parse_section on its own.                                               *)
(***************************************************************************)
SectionHeaderRead == parse.kind = "parse_section"

ByteAtCursor == At(parse.bytes, parse.cursor)

\* the two LEB128 fields after the id byte, as they stand in the input
SizeField == parse_u32(parse.bytes, parse.cursor + 1)

CountField == parse_u32(parse.bytes, SizeField.cursor)

\* C22: with the cursor inside the input, parse_section returns Ok, count 0,
\* the empty range cursor..cursor and the unchanged cursor when the byte at
\* the cursor is not the expected id; when it is the id and both fields
\* decode, it returns the count, the range from just past the count field
\* to count_start + section_size, and the cursor just past the count field.
C22_ParseSectionAbsentOrHeader ==
    (SectionHeaderRead /\ parse.cursor < Len(parse.bytes)) =>
        IF ByteAtCursor # parse.given
        THEN /\ parse.result.status = "Ok"
             /\ parse.result.count = 0
             /\ parse.result.start = parse.cursor
             /\ parse.result.end = parse.cursor
             /\ parse.result.cursor = parse.cursor
        ELSE /\ parse.result.status = "Ok" <=> (SizeField.ok /\ CountField.ok)
             /\ parse.result.status = "Ok" =>
                   /\ parse.result.count = CountField.value
                   /\ parse.result.start = CountField.cursor
                   /\ parse.result.end = SizeField.cursor + SizeField.value
                   /\ parse.result.cursor = CountField.cursor
                   \* with one-byte fields: id, size, count, body
                   /\ (At(parse.bytes, parse.cursor + 1) < 128
                          /\ At(parse.bytes, parse.cursor + 2) < 128) =>
                         /\ parse.result.count = At(parse.bytes, parse.cursor + 2)
                         /\ parse.result.start = parse.cursor + 3
                         /\ parse.result.end
                               = parse.cursor + 2 + At(parse.bytes, parse.cursor + 1)

\* a section found past the start of the input, with entries and a body
C22_Witness ==
    /\ SectionHeaderRead
    /\ parse.cursor > 0
    /\ parse.cursor < Len(parse.bytes)
    /\ ByteAtCursor = parse.given
    /\ parse.result.status = "Ok"
    /\ parse.result.count > 0
    /\ parse.result.end > parse.result.start
    /\ parse.result.end <= Len(parse.bytes)

\* another section's id at the cursor: read as absent
C22_WitnessAbsent ==
    /\ SectionHeaderRead
    /\ parse.cursor < Len(parse.bytes)
    /\ ByteAtCursor # parse.given
    /\ ByteAtCursor \in SectionIds
    /\ parse.result.status = "Ok"

(***************************************************************************)
(* end_addr and the segment indices of a data section that is added to.    *)
(***************************************************************************)
DataParsed == data.stage = "parsed"

\* every segment the section holds: those read and those appended
SegmentsHeld == data.given \o data.appended

ActiveHeld(i) == SegmentsHeld[i].mode.variant = "Active"

\* C23: after DataSection::parse and any append_segment calls, end_addr is at
\* least the offset of every active segment in the section, and the indices
\* append_segment returned are consecutive from the count that was read.
C23_EndAddrCoversActiveSegments ==
    DataParsed =>
        /\ \A i \in 1..Len(SegmentsHeld) :
               ActiveHeld(i) =>
                   ~U32Less(data.section.end_addr, SegmentsHeld[i].mode.offset)
        /\ \A k \in 1..Len(data.indices) :
               data.indices[k] = data.parsed_count + k - 1

\* the part that holds: the indices are consecutive from the count read,
\* and the count follows them
C23_AppendIndicesConsecutive ==
    DataParsed =>
        /\ data.parsed_count = Len(data.given)
        /\ \A k \in 1..Len(data.indices) :
               data.indices[k] = data.parsed_count + k - 1
        /\ data.section.count = data.parsed_count + Len(data.appended)

\* end_addr covers what was read when the offsets are below 2^31 (see C15)
C23_EndAddrCoversSegmentsRead ==
    DataParsed =>
        \A i \in 1..Len(data.given) :
            (ActiveHeld(i) /\ \A j \in 1..Len(data.given) :
                                 data.given[j].mode.offset >= 0) =>
                data.section.end_addr >= data.given[i].mode.offset

\* a section read with one active segment, then given a higher active one
C23_Witness ==
    /\ DataParsed
    /\ Len(data.given) = 1
    /\ data.given[1].mode.offset = 0
    /\ Len(data.appended) = 2
    /\ data.appended[1].mode.variant = "Passive"
    /\ data.appended[2].mode = ActiveMode(64)
    /\ data.indices = <<1, 2>>
    /\ data.section.end_addr = 0

(***************************************************************************)
(* The name section parser and the function names subsection.              *)
(***************************************************************************)
NameParsed == HasParsed("Name") /\ parse.cursor < Len(parse.bytes)

CustomAtCursor == At(parse.bytes, parse.cursor) = SectionIdCustom

CustomSize == parse_u32(parse.bytes, parse.cursor + 1)

CustomName == Str_parse(parse.bytes, CustomSize.cursor)

CustomEnd == CustomSize.cursor + CustomSize.value

NamedName == CustomAtCursor /\ CustomSize.ok /\ CustomName.ok /\ CustomName.value = NAME

\* the subsection that starts at position p of the input, if one does
\* inside the name section: [inside, id, next]
SubsectionAt(p) ==
    LET size == parse_u32(parse.bytes, p + 1)
    IN  IF p >= CustomEnd \/ p >= Len(parse.bytes) \/ ~size.ok
        THEN [inside |-> FALSE, id |-> 0, body |-> p, next |-> p]
        ELSE [inside |-> TRUE, id |-> At(parse.bytes, p), body |-> size.cursor,
              next |-> size.cursor + size.value]

FirstSubsection == SubsectionAt(CustomName.cursor)

SecondSubsection == SubsectionAt(FirstSubsection.next)

\* where the function names start when they are the first subsection of
\* the section or the second; 0 when they are neither
FunctionNamesBody ==
    IF FirstSubsection.inside /\ FirstSubsection.id = NameSubSectionsFunctionNames
    THEN FirstSubsection.body
    ELSE IF FirstSubsection.inside /\ SecondSubsection.inside
            /\ SecondSubsection.id = NameSubSectionsFunctionNames
    THEN SecondSubsection.body
    ELSE 0

FunctionNamesFound == FunctionNamesBody # 0

\* C24: NameSection::parse returns a ParseError for a section id other than
\* custom, for a custom section with another name, and for a section named
\* "name" whose first two subsections are not the function names; when it
\* succeeds the function names were found, functions holds exactly the
\* entries read, bytes holds exactly those entries, and the cursor is at
\* the end of the section.
C24_NameSectionRequiresFunctionNames ==
    NameParsed =>
        /\ ~CustomAtCursor => parse.result.status = "Err"
        /\ (CustomAtCursor /\ CustomSize.ok /\ CustomName.ok /\ CustomName.value # NAME)
              => parse.result.status = "Err"
        /\ (NamedName /\ ~FunctionNamesFound) => parse.result.status = "Err"
        /\ parse.result.status = "Ok" =>
              /\ NamedName
              /\ FunctionNamesFound
              /\ LET count == parse_u32(parse.bytes, FunctionNamesBody)
                     entries == EncodedNames(parse.result.section.bytes, 0)
                 IN  /\ Len(entries) = count.value
                     /\ Range(entries) = parse.result.section.functions
                     /\ Cardinality(parse.result.section.functions) = count.value
                     /\ parse.result.section.bytes
                           = Slice(parse.bytes, count.cursor,
                                   count.cursor + Len(parse.result.section.bytes))
              /\ parse.result.cursor = CustomEnd

\* no name is read twice
DistinctNamesRead ==
    LET entries == EncodedNames(parse.result.section.bytes, 0)
    IN  \A i, j \in 1..Len(entries) : entries[i][1] = entries[j][1] => i = j

\* C24 for a name section that is whole in the input, holds at least one
\* subsection and no name twice
C24_RequiresFunctionNamesInNonEmptySection ==
    (NameParsed /\ (NamedName => (FirstSubsection.inside /\ CustomEnd <= Len(parse.bytes)))) =>
        /\ ~CustomAtCursor => parse.result.status = "Err"
        /\ (CustomAtCursor /\ CustomSize.ok /\ CustomName.ok /\ CustomName.value # NAME)
              => parse.result.status = "Err"
        /\ (NamedName /\ ~FunctionNamesFound) => parse.result.status = "Err"
        /\ parse.result.status \in {"Ok", "Err"}
        /\ (parse.result.status = "Ok" /\ DistinctNamesRead) =>
              /\ NamedName
              /\ FunctionNamesFound
              /\ LET count == parse_u32(parse.bytes, FunctionNamesBody)
                     entries == EncodedNames(parse.result.section.bytes, 0)
                 IN  /\ Len(entries) = count.value
                     /\ Range(entries) = parse.result.section.functions
                     /\ parse.result.section.bytes
                           = Slice(parse.bytes, count.cursor,
                                   count.cursor + Len(parse.result.section.bytes))
              /\ parse.result.cursor = CustomEnd

\* a whole section named "name" without any subsection, at the end of the
\* input: the parser neither succeeds nor returns a ParseError
C24_Witness ==
    /\ NameParsed
    /\ NamedName
    /\ CustomEnd = Len(parse.bytes)
    /\ CustomName.cursor = CustomEnd
    /\ ~FunctionNamesFound
    /\ parse.result.status = "Panic"

\* the same section ahead of a type section: the type section is read as
\* the function names
C24_WitnessReadsPastSection ==
    /\ NameParsed
    /\ NamedName
    /\ ~FunctionNamesFound
    /\ parse.result.status = "Ok"
    /\ parse.result.section.functions # {}

\* the module name is skipped and the function names are read
C24_WitnessSkipsModuleName ==
    /\ NameParsed
    /\ NamedName
    /\ FirstSubsection.id = 0
    /\ FunctionNamesFound
    /\ parse.result.status = "Ok"
    /\ Cardinality(parse.result.section.functions) = 2
    /\ parse.result.cursor = Len(parse.bytes)

(***************************************************************************)
(* A table section written and read back.                                  *)
(***************************************************************************)
\* TableSection::parse has run on the section written for parse.given
ParsedWrittenTable == HasParsed("Table") /\ parse.origin = "table"

LimitsRead == parse.result.section.function_table.limits

\* C25: a funcref table section with any limits, serialized and parsed with
\* TableSection::parse, comes back with the same limits, and the cursor is
\* at the end of the section.
C25_TableRoundTrip ==
    ParsedWrittenTable =>
        /\ parse.result.status = "Ok"
        /\ parse.result.section = FuncTable(parse.given)
        /\ parse.result.cursor = Len(parse.bytes)

\* what comes back instead: Limits::Min of the limits variant byte
C25_LimitsReadAreTheVariantByte ==
    ParsedWrittenTable =>
        /\ parse.result.status = "Ok"
        /\ parse.result.cursor = Len(parse.bytes)
        /\ LimitsRead.variant = "Min"
        /\ LimitsRead.min = IF parse.given.variant = "Min" THEN LimitsIdMin ELSE LimitsIdMinMax

\* a table of 128 entries and no more comes back as a table of at least 1
C25_Witness ==
    /\ ParsedWrittenTable
    /\ parse.given = [variant |-> "MinMax", min |-> 128, max |-> 128]
    /\ parse.result.status = "Ok"
    /\ LimitsRead = [variant |-> "Min", min |-> 1, max |-> 0]

(***************************************************************************)
(* The function count of a trimmed code section.                           *)
(***************************************************************************)
TrimmedAndSerialized == unit.phase = "serialized"

\* what was written behind the id and the padded size of the code section
TrimmedBodyWritten == Slice(unit.written, 1 + MAX_SIZE_ENCODED_U32, Len(unit.written))

TrimmedCountWritten == parse_u32(TrimmedBodyWritten, 0)

\* C26: a code section serialized after remove_dead_preloads announces as
\* many functions (preloaded_count + number of code builders) as the
\* section body holds function bodies, whatever was live.
C26_CountMatchesBodiesAfterTrim ==
    TrimmedAndSerialized =>
        /\ TrimmedCountWritten.ok
        /\ TrimmedCountWritten.value
              = I32Add(unit.code.preloaded_count, Len(unit.code.code_builders))
        /\ BodiesIn(TrimmedBodyWritten, TrimmedCountWritten.cursor, 0)
              = TrimmedCountWritten.value

\* C26 when nothing was dead
C26_CountMatchesBodiesWhenAllLive ==
    (TrimmedAndSerialized /\ LiveSet = PreloadIndices) =>
        BodiesIn(TrimmedBodyWritten, TrimmedCountWritten.cursor, 0)
            = TrimmedCountWritten.value

\* the number of bodies written is always the number of live functions
C26_BodiesWrittenAreTheLiveOnes ==
    TrimmedAndSerialized =>
        BodiesIn(TrimmedBodyWritten, TrimmedCountWritten.cursor, 0) = Cardinality(LiveSet)

\* of the preloaded functions one is dead: the count written is still the
\* number of functions that were loaded, one more than the bodies written
C26_Witness ==
    /\ TrimmedAndSerialized
    /\ Cardinality(LiveSet) = MaxPreloads - 1
    /\ TrimmedCountWritten.value = MaxPreloads
    /\ BodiesIn(TrimmedBodyWritten, TrimmedCountWritten.cursor, 0) = MaxPreloads - 1

(***************************************************************************)
(* Table slots over a whole run of get_fn_table_index calls.               *)
(***************************************************************************)
\* what get_fn_table_index would return for f now
SlotNow(f) == ElementSection_get_fn_table_index(element, f)

C27_WitnessAbsentSection ==
    /\ Got
    /\ Len(element.segments) = 1
    /\ element.segments[1].offset = 1
    /\ elemLog.before.segments[1].fn_indices = <<>>
    /\ elemLog.index = 1

(***************************************************************************)
(* The pages of a memory section.                                          *)
(***************************************************************************)
MemoryMade == sect.kind = "Memory" /\ "memory_bytes" \in DOMAIN sect

\* the whole pages in a u32 given as its bit pattern, and the bytes beyond
WholePages(n) == IF n >= 0 THEN n \div PAGE_SIZE ELSE PAGE_SIZE + (n \div PAGE_SIZE)

BeyondWholePages(n) == n % PAGE_SIZE

\* ceil(n / 65536) for the u32 n
PagesNeeded(n) == WholePages(n) + (IF BeyondWholePages(n) > 0 THEN 1 ELSE 0)

\* the minimum the section declares
PagesDeclared == Limits_parse(sect.value.bytes, 0).limits

\* C28: MemorySection::new(0) is the empty section with count 0; for every
\* other 32-bit n, new(n) has count 1 and Limits::Min(ceil(n / 65536)), so
\* that the pages cover n, and the arithmetic does not overflow or wrap.
C28_EnoughPagesForEveryRequest ==
    MemoryMade =>
        IF sect.memory_bytes = 0
        THEN sect.value = [count |-> 0, bytes |-> <<>>]
        ELSE /\ sect.value.count = 1
             /\ sect.value.bytes = <<LimitsIdMin>> \o encode_u32(PagesNeeded(sect.memory_bytes))
             /\ PagesDeclared.variant = "Min"
             /\ PagesDeclared.min >= PagesNeeded(sect.memory_bytes)
             /\ ~MemoryPagesOverflow(sect.memory_bytes)

\* C28 for requests of less than 2^32 - 65536 bytes
C28_EnoughPagesBelowTheLastPage ==
    (MemoryMade /\ ~MemoryPagesOverflow(sect.memory_bytes)) =>
        IF sect.memory_bytes = 0
        THEN sect.value = [count |-> 0, bytes |-> <<>>]
        ELSE /\ sect.value.count = 1
             /\ sect.value.bytes = <<LimitsIdMin>> \o encode_u32(PagesNeeded(sect.memory_bytes))
             /\ PagesDeclared.min >= PagesNeeded(sect.memory_bytes)

\* 2^32 - 1 bytes are asked for and the section declares no page at all
C28_Witness ==
    /\ MemoryMade
    /\ sect.memory_bytes = -1
    /\ PagesNeeded(sect.memory_bytes) = PAGE_SIZE
    /\ sect.value.count = 1
    /\ PagesDeclared = [variant |-> "Min", min |-> 0, max |-> 0]
    /\ out.op = "serialize"

\* a global of the section appended so far has been read back by its index
GlobalReadBack ==
    sect.kind = "Global" /\ sect.read # NotRead /\ sect.index < Len(sect.inits)

\* the mode of an active segment has been written and read back
ModeReadBack == sect.kind = "Mode" /\ sect.read # NotRead

\* the initialiser the read was aimed at, as appended or as handed to active_at
InitWritten == sect.inits[sect.index + 1]

\* the signed LEB128 of v, read as an unsigned one, gives the bits of v
\* again: v is not negative, or its signed form takes all five bytes
ReadsAsWritten(v) == v >= 0 \/ v < -134217728

\* C29: an i32 initialiser survives writing and reading for every 32-bit
\* value: the global appended as the i-th one is read back by
\* parse_u32_at_index(i) as Ok with the same bits, and the mode made by
\* DataMode::active_at(offset) is parsed back as Active with the same offset.
C29_I32InitializersRoundTrip ==
    /\ GlobalReadBack => (sect.read.status = "Ok" /\ sect.read.value = InitWritten)
    /\ ModeReadBack => (sect.read.status = "Ok" /\ sect.mode = ActiveMode(InitWritten))

\* C29 for the values whose signed and unsigned LEB128 readings agree
C29_RoundTripWhereReadingsAgree ==
    ((GlobalReadBack \/ ModeReadBack) /\ ReadsAsWritten(InitWritten)) =>
        (sect.read.status = "Ok" /\ sect.read.value = InitWritten)

\* every read of an appended global or of a written mode succeeds
C29_ReadsSucceed ==
    (GlobalReadBack \/ ModeReadBack) => sect.read.status = "Ok"

\* the second global is -1 and is read back by its index as 127
C29_Witness ==
    /\ GlobalReadBack
    /\ sect.index = 1
    /\ InitWritten = -1
    /\ sect.read = [status |-> "Ok", value |-> 127, cursor |-> Len(sect.value.bytes)]

\* active_at(0xFFFFFFFF) is read back as Active at 127
C29_WitnessMode ==
    /\ ModeReadBack
    /\ InitWritten = -1
    /\ sect.mode = ActiveMode(127)

====
